---- MODULE Spec2Model ----
(***************************************************************************)
(* Nightshift scheduling core: the durable TaskQueue (task_queue.py), the  *)
(* ModelFailoverManager (model_manager.py) and the NightshiftRunner loop   *)
(* (runner.py).                                                            *)
(*                                                                         *)
(* The specifications share the variables:                                 *)
(*   Spec        - a client driving one TaskQueue instance through its     *)
(*                 public operations (as the tests and the CLI do);        *)
(*   GenSpec     - task generation over the whole catalogue;               *)
(*   StoreSpec   - the whole write surface of the TaskQueue;               *)
(*   MgrSpec     - a client driving one ModelFailoverManager;              *)
(*   RunnerSpec  - one NightshiftRunner executing run();                   *)
(*   NominalSpec - run() with an agent that always succeeds;               *)
(*   QuotaSpec   - run() while models are marked rate limited;             *)
(*   TwoSpec     - two runners on one store;                               *)
(*   DiffSpec    - the DiffReportGenerator;                                *)
(*   HistSpec    - the DiffReportGenerator past its history limit;         *)
(*   ServerSpec  - the HTTP control surface;                               *)
(*   TallySpec   - run() on a store whose runs a client finalizes;         *)
(*   PrioSpec    - the SmartPrioritizer.                                   *)
(***************************************************************************)
EXTENDS Integers, Sequences, FiniteSets, TLC

VARIABLES
    tasks,              \* table tasks: row id = index
    runs,               \* table runs: row id = index
    findings,           \* table findings
    current_run_id,     \* TaskQueue.current_run_id
    config,             \* NightshiftConfig of the queue / runner
    history,            \* finding_history.json of DiffReportGenerator
    ret,                \* value returned by the last read operation
    calls,              \* number of mark_* and read calls made by the client
    models,             \* ModelFailoverManager.models
    rate_limit_until,   \* ModelFailoverManager._rate_limit_until
    last_quota_check,   \* ModelFailoverManager._last_quota_check
    now,                \* time.time()
    pc,                 \* position of the runner inside run()
    run_id,             \* NightshiftRunner.run_id
    start_time,         \* NightshiftRunner.start_time
    stop_requested,     \* NightshiftRunner._stop_requested
    cur,                \* task and model of the iteration in flight
    dispatched,         \* per task: number of agent calls made for it
    faults,             \* number of environment faults injected so far
    end_reason,         \* why run() left its loop
    run_status          \* server.py: _run_status["status"]

vars == <<tasks, runs, findings, current_run_id, config, history, ret, calls,
          models, rate_limit_until, last_quota_check, now,
          pc, run_id, start_time, stop_requested, cur, dispatched, faults, end_reason,
          run_status>>

(***************************************************************************)
(* Bounds of the model.                                                    *)
(***************************************************************************)
MaxRuns == 2
MaxTasks == 6
MaxCalls == 2
MaxTicks == 4
MaxFaults == 1
MaxDurationHours == 1
MaxRunTasks == 6
MaxHistory == 2
MaxStarts == 2
MaxPrioTasks == 3
MaxRecords == 32

(***************************************************************************)
(* Values of the program.                                                  *)
(***************************************************************************)
None == 0
NoneStr == "None"

PENDING == "pending"
IN_PROGRESS == "in_progress"
COMPLETED == "completed"
FAILED == "failed"
SKIPPED == "skipped"

\* ModelFailoverManager.quota_check_interval (seconds)
quota_check_interval == 1800
\* default retry_after_seconds of mark_rate_limited
retry_after_default == 3600

\* the clock advances in steps of TickStep seconds; time.time() at start
TickStep == quota_check_interval
ClockStart == 2 * TickStep
ClockEnd == ClockStart + MaxTicks * TickStep

\* an empty dict
EmptyDict == [k \in {} |-> 0]

ModelKeys == {"google/p1", "openai/p2"}

Projects == {"p1", "p2"}
\* the project the queue client generates tasks for
ClientProjects == {"p1"}

audit_tasks ==
    << <<"file_structure_analysis", 1>>, <<"dependency_audit", 2>>,
       <<"code_pattern_analysis", 3>>, <<"tech_debt_scan", 4>>,
       <<"security_review", 5>> >>

enhancement_tasks ==
    << <<"architecture_review", 6>>, <<"best_practices_check", 7>>,
       <<"performance_analysis", 8>> >>

research_tasks ==
    << <<"dependency_updates", 9>>, <<"sota_alternatives", 10>>,
       <<"integration_opportunities", 11>> >>

\* The three category switches of NightshiftConfig.
Flags ==
    [enable_codebase_audit : BOOLEAN,
     enable_enhancement_recommendations : BOOLEAN,
     enable_tool_stack_research : BOOLEAN]

(***************************************************************************)
(* TaskQueue                                                               *)
(***************************************************************************)
TaskIds == DOMAIN tasks
RunIds == DOMAIN runs

\* TaskQueue._resolve_run_id
_resolve_run_id(rid) == IF rid # None THEN rid ELSE current_run_id

\* ProjectConfig.path of a project
ProjectPath(project) == IF project = "p1" THEN "/work/p1" ELSE "/work/p2"

\* ResearchTask as built by generate_tasks_for_project and stored by _save_task
ResearchTask(task_type, project, rid, priority) ==
    [run_id |-> rid, task_type |-> task_type, project_name |-> project,
     project_path |-> ProjectPath(project),
     status |-> PENDING, priority |-> priority, model_used |-> NoneStr,
     tokens_used |-> 0, raw_output |-> NoneStr, error |-> NoneStr]

\* a row of table runs as create_run inserts it: the columns it does not
\* name take their defaults (NULL, 0)
RunRow(started_at) ==
    [started_at |-> started_at, completed_at |-> None, total_tasks |-> 0,
     completed_tasks |-> 0, failed_tasks |-> 0, total_tokens |-> 0,
     models_used_json |-> NoneStr]

\* all_task_types with the research kinds ahead of the enhancement kinds
all_task_types_ResearchFirst(cfg) ==
    (IF cfg.enable_codebase_audit THEN audit_tasks ELSE <<>>)
    \o (IF cfg.enable_tool_stack_research THEN research_tasks ELSE <<>>)
    \o (IF cfg.enable_enhancement_recommendations THEN enhancement_tasks ELSE <<>>)

\* the list all_task_types of generate_tasks_for_project
all_task_types(cfg) ==
    (IF cfg.enable_codebase_audit THEN audit_tasks ELSE <<>>)
    \o (IF cfg.enable_enhancement_recommendations THEN enhancement_tasks ELSE <<>>)
    \o (IF cfg.enable_tool_stack_research THEN research_tasks ELSE <<>>)

\* generate_tasks_for_project tagging the rows with the first run of the store
GeneratedTasks_FirstRun(cfg, project, rid) ==
    [i \in 1..Len(all_task_types(cfg)) |->
        ResearchTask(all_task_types(cfg)[i][1], project, 1, all_task_types(cfg)[i][2])]

\* rows appended by generate_tasks_for_project(project) under run rid
GeneratedTasks(cfg, project, rid) ==
    [i \in 1..Len(all_task_types(cfg)) |->
        ResearchTask(all_task_types(cfg)[i][1], project, rid, all_task_types(cfg)[i][2])]

\* "WHERE status = ?" without the run clause, whatever run is asked for
RowsWhere_AnyRun(tbl, status, active_run_id) ==
    {t \in DOMAIN tbl : tbl[t].status = status}

\* rows selected by "WHERE status = ? [AND run_id = ?]"
RowsWhere(tbl, status, active_run_id) ==
    {t \in DOMAIN tbl :
        /\ tbl[t].status = status
        /\ (active_run_id # None => tbl[t].run_id = active_run_id)}

\* get_next_pending_task with the rows ordered "priority DESC"
NextPendingIn_Desc(tbl, active_run_id) ==
    LET rows == RowsWhere(tbl, PENDING, active_run_id)
    IN  IF rows = {} THEN {None}
        ELSE {t \in rows : \A u \in rows : tbl[t].priority >= tbl[u].priority}

\* get_next_pending_task: the rows "ORDER BY priority ASC LIMIT 1" may return
\* (rows of equal priority have no defined order), None when there is no row
NextPendingIn(tbl, active_run_id) ==
    LET rows == RowsWhere(tbl, PENDING, active_run_id)
    IN  IF rows = {} THEN {None}
        ELSE {t \in rows : \A u \in rows : tbl[t].priority <= tbl[u].priority}

get_next_pending_task_results(rid) == NextPendingIn(tasks, _resolve_run_id(rid))

\* get_pending_count
get_pending_count(rid) == Cardinality(RowsWhere(tasks, PENDING, _resolve_run_id(rid)))

\* get_completed_count
get_completed_count(rid) == Cardinality(RowsWhere(tasks, COMPLETED, _resolve_run_id(rid)))

RECURSIVE SumTokens(_, _)
SumTokens(tbl, S) ==
    IF S = {} THEN 0
    ELSE LET t == CHOOSE x \in S : TRUE
         IN  tbl[t].tokens_used + SumTokens(tbl, S \ {t})

\* get_statistics counting without the "AND run_id = ?" clause
StatisticsOf_AllRuns(tbl, active_run_id) ==
    [pending |-> Cardinality(RowsWhere(tbl, PENDING, None)),
     in_progress |-> Cardinality(RowsWhere(tbl, IN_PROGRESS, None)),
     completed |-> Cardinality(RowsWhere(tbl, COMPLETED, None)),
     failed |-> Cardinality(RowsWhere(tbl, FAILED, None)),
     skipped |-> Cardinality(RowsWhere(tbl, SKIPPED, None)),
     total_tokens |-> SumTokens(tbl, RowsWhere(tbl, COMPLETED, None))]

\* get_statistics over a tasks table
StatisticsOf(tbl, active_run_id) ==
    [pending |-> Cardinality(RowsWhere(tbl, PENDING, active_run_id)),
     in_progress |-> Cardinality(RowsWhere(tbl, IN_PROGRESS, active_run_id)),
     completed |-> Cardinality(RowsWhere(tbl, COMPLETED, active_run_id)),
     failed |-> Cardinality(RowsWhere(tbl, FAILED, active_run_id)),
     skipped |-> Cardinality(RowsWhere(tbl, SKIPPED, active_run_id)),
     total_tokens |-> SumTokens(tbl, RowsWhere(tbl, COMPLETED, active_run_id))]

get_statistics(rid) == StatisticsOf(tasks, _resolve_run_id(rid))

\* UPDATE tasks SET ... WHERE id = task_id (no row: nothing changes)
UpdateTask(tbl, task_id, upd) ==
    IF task_id \in DOMAIN tbl
    THEN [tbl EXCEPT ![task_id] = [f \in DOMAIN @ |-> IF f \in DOMAIN upd THEN upd[f] ELSE @[f]]]
    ELSE tbl

\* mark_in_progress writing the model without the status
MarkInProgressRow_NoStatus(tbl, task_id, model_key) ==
    UpdateTask(tbl, task_id, [model_used |-> model_key])

\* mark_in_progress
MarkInProgressRow(tbl, task_id, model_key) ==
    UpdateTask(tbl, task_id, [status |-> IN_PROGRESS, model_used |-> model_key])

\* mark_completed
MarkCompletedRow(tbl, task_id, tokens_used, raw_output) ==
    UpdateTask(tbl, task_id,
        [status |-> COMPLETED, tokens_used |-> tokens_used, raw_output |-> raw_output])

\* mark_failed writing the error without the status
MarkFailedRow_KeepsStatus(tbl, task_id, error) ==
    UpdateTask(tbl, task_id, [error |-> error])

\* mark_failed putting the task back in the queue
MarkFailedRow_Requeue(tbl, task_id, error) ==
    UpdateTask(tbl, task_id, [status |-> PENDING, error |-> error])

\* mark_failed
MarkFailedRow(tbl, task_id, error) ==
    UpdateTask(tbl, task_id, [status |-> FAILED, error |-> error])


\* the runner and the manager at rest, as after construction
NoCur == [task |-> None, model |-> None, result |-> NoneStr]
NoRet == [op |-> NoneStr, arg |-> None, val |-> None]

MgrIdle ==
    /\ models = <<>>
    /\ rate_limit_until = EmptyDict
    /\ last_quota_check = 0

RunnerIdle ==
    /\ pc = "idle"
    /\ run_id = None
    /\ start_time = 0
    /\ stop_requested = FALSE
    /\ cur = NoCur
    /\ dispatched = <<>>
    /\ faults = 0
    /\ end_reason = NoneStr
    /\ run_status = "idle"

\* DiffReportGenerator._load_history without a history file
EmptyHistory == [runs |-> <<>>, findings |-> EmptyDict]

\* TaskQueue.__post_init__ on an empty store, no history file yet
QueueInit ==
    /\ tasks = <<>>
    /\ history = EmptyHistory
    /\ runs = <<>>
    /\ findings = <<>>
    /\ current_run_id = None
    /\ ret = NoRet
    /\ calls = 0

Init ==
    /\ QueueInit
    /\ \E f \in Flags : config = [flags |-> f, projects |-> <<>>]
    /\ MgrIdle
    /\ RunnerIdle
    /\ now = ClockStart

\* a TaskQueue operation leaves the manager, the clock and the runner alone
QueueOnly ==
    UNCHANGED <<models, rate_limit_until, last_quota_check, now,
                pc, run_id, start_time, stop_requested, cur, dispatched, faults, end_reason, run_status>>

\* TaskQueue.create_run
CreateRunEffect ==
    /\ runs' = Append(runs, RunRow(now))
    /\ current_run_id' = Len(runs) + 1

create_run ==
    /\ Len(runs) < MaxRuns
    /\ CreateRunEffect
    /\ ret' = NoRet
    /\ UNCHANGED <<tasks, findings, config, history, calls>>
    /\ QueueOnly

\* TaskQueue.__post_init__ of a new instance opened on the same store
\* (cli.py status, diff_report.py): the instance has no current run
reopen ==
    /\ current_run_id' = None
    /\ ret' = NoRet
    /\ UNCHANGED <<tasks, runs, findings, config, history, calls>>
    /\ QueueOnly

\* generate_tasks_for_project that returns an empty list without a current run
GenerateTasksEffect_SilentNoOp(project) ==
    /\ tasks' = IF current_run_id = None THEN tasks
                ELSE tasks \o GeneratedTasks(config.flags, project, current_run_id)
    /\ ret' = [op |-> "generate_tasks_for_project", arg |-> project, val |-> "returned"]

\* TaskQueue.generate_tasks_for_project(project): without a current run it
\* raises RuntimeError before any row is written, else it saves one row per
\* entry of all_task_types and returns the list
GenerateTasksEffect(project) ==
    IF current_run_id = None
    THEN /\ ret' = [op |-> "generate_tasks_for_project", arg |-> project, val |-> "RuntimeError"]
         /\ UNCHANGED tasks
    ELSE /\ tasks' = tasks \o GeneratedTasks(config.flags, project, current_run_id)
         /\ ret' = [op |-> "generate_tasks_for_project", arg |-> project, val |-> "returned"]

\* generate_tasks_for_project called by the client of the bounded store
generate_tasks_for_project ==
    \E project \in ClientProjects :
        /\ Len(tasks) + Len(all_task_types(config.flags)) <= MaxTasks
        /\ GenerateTasksEffect(project)
        /\ UNCHANGED <<runs, findings, current_run_id, config, history, calls>>
        /\ QueueOnly

ClientModelKeys == {"openai/test"}
ClientErrorTexts == {"Rate limited"}

\* TaskQueue.mark_in_progress called by the client
mark_in_progress ==
    \E t \in TaskIds, m \in ClientModelKeys :
        /\ calls < MaxCalls
        /\ calls' = calls + 1
        /\ tasks' = MarkInProgressRow(tasks, t, m)
        /\ ret' = NoRet
        /\ UNCHANGED <<runs, findings, current_run_id, config, history>>
        /\ QueueOnly

\* TaskQueue.mark_completed called by the client
mark_completed ==
    \E t \in TaskIds :
        /\ calls < MaxCalls
        /\ calls' = calls + 1
        /\ tasks' = MarkCompletedRow(tasks, t, 10, "[]")
        /\ ret' = NoRet
        /\ UNCHANGED <<runs, findings, current_run_id, config, history>>
        /\ QueueOnly

\* TaskQueue.mark_failed called by the client
mark_failed ==
    \E t \in TaskIds, e \in ClientErrorTexts :
        /\ calls < MaxCalls
        /\ calls' = calls + 1
        /\ tasks' = MarkFailedRow(tasks, t, e)
        /\ ret' = NoRet
        /\ UNCHANGED <<runs, findings, current_run_id, config, history>>
        /\ QueueOnly

\* TaskQueue.get_next_pending_task(run_id), run_id omitted when rid = None
get_next_pending_task ==
    \E rid \in {None} \cup RunIds :
        \E r \in get_next_pending_task_results(rid) :
            /\ ret' = [op |-> "get_next_pending_task", arg |-> rid, val |-> r]
            /\ calls < MaxCalls
            /\ calls' = calls + 1
            /\ UNCHANGED <<tasks, runs, findings, current_run_id, config, history>>
            /\ QueueOnly

\* TaskQueue.get_statistics(run_id)
get_statistics_call ==
    \E rid \in {None} \cup RunIds :
        /\ ret' = [op |-> "get_statistics", arg |-> rid, val |-> get_statistics(rid)]
        /\ calls < MaxCalls
        /\ calls' = calls + 1
        /\ UNCHANGED <<tasks, runs, findings, current_run_id, config, history>>
        /\ QueueOnly

\* TaskQueue.get_pending_count(run_id)
get_pending_count_call ==
    \E rid \in {None} \cup RunIds :
        /\ ret' = [op |-> "get_pending_count", arg |-> rid, val |-> get_pending_count(rid)]
        /\ calls < MaxCalls
        /\ calls' = calls + 1
        /\ UNCHANGED <<tasks, runs, findings, current_run_id, config, history>>
        /\ QueueOnly

Next ==
    \/ create_run
    \/ reopen
    \/ generate_tasks_for_project
    \/ mark_in_progress
    \/ mark_completed
    \/ mark_failed
    \/ get_next_pending_task
    \/ get_statistics_call
    \/ get_pending_count_call

Spec == Init /\ [][Next]_vars

(***************************************************************************)
(* Task generation over the whole catalogue: a client that only creates    *)
(* runs, reopens the store and generates tasks, MaxCalls times at most      *)
(***************************************************************************)
generate_tasks_for_any_project ==
    \E project \in Projects :
        /\ calls < MaxCalls
        /\ calls' = calls + 1
        /\ GenerateTasksEffect(project)
        /\ UNCHANGED <<runs, findings, current_run_id, config, history>>
        /\ QueueOnly

GenNext ==
    \/ create_run
    \/ reopen
    \/ generate_tasks_for_any_project

GenSpec == Init /\ [][GenNext]_vars

(***************************************************************************)
(* ModelFailoverManager                                                    *)
(***************************************************************************)

\* a model is named by its position in self.models
ModelIds == DOMAIN models

\* get_model_key
get_model_key(ms, m) == ms[m].key

\* dict.get(key, 0)
DictGet(d, key) == IF key \in DOMAIN d THEN d[key] ELSE 0

\* sorted(self.models, key=priority): positions of ms in ascending priority,
\* equal priorities in list order (the sort is stable)
RECURSIVE InsertByPriority(_, _, _)
InsertByPriority(ms, sorted, m) ==
    IF sorted = <<>> THEN <<m>>
    ELSE IF ms[Head(sorted)].priority <= ms[m].priority
         THEN <<Head(sorted)>> \o InsertByPriority(ms, Tail(sorted), m)
         ELSE <<m>> \o sorted

RECURSIVE SortedPrefix(_, _)
SortedPrefix(ms, n) ==
    IF n = 0 THEN <<>> ELSE InsertByPriority(ms, SortedPrefix(ms, n - 1), n)

\* the list in the order of self.models, without sorting
sorted_models_Unsorted(ms) == [i \in 1..Len(ms) |-> i]

sorted_models(ms) == SortedPrefix(ms, Len(ms))

\* the test "now > rate_limited_until" with >= instead
IsAvailable_AtExpiry(ms, rlu, t, m) == t >= DictGet(rlu, get_model_key(ms, m))

\* the test of get_available_model and get_status: now > rate_limited_until
IsAvailable(ms, rlu, t, m) == t > DictGet(rlu, get_model_key(ms, m))

\* the for loop of get_available_model: first available model of the list
RECURSIVE FirstAvailable(_, _, _, _)
FirstAvailable(ms, rlu, t, order) ==
    IF order = <<>> THEN None
    ELSE IF IsAvailable(ms, rlu, t, Head(order)) THEN Head(order)
         ELSE FirstAvailable(ms, rlu, t, Tail(order))

AvailableModel(ms, rlu, t) == FirstAvailable(ms, rlu, t, sorted_models(ms))

\* a _check_quota_refresh that also drops the entries expiring right now
PrunedCooldowns_AtExpiry(rlu, t) ==
    [k \in {x \in DOMAIN rlu : ~(t >= rlu[x])} |-> rlu[k]]

\* _check_quota_refresh: the dict without the entries with now > until_time
PrunedCooldowns(rlu, t) ==
    [k \in {x \in DOMAIN rlu : ~(t > rlu[x])} |-> rlu[k]]

\* the maintenance step at the head of get_available_model
QuotaRefreshDue(t) == t - last_quota_check > quota_check_interval

CooldownsAfterRefresh(t) ==
    IF QuotaRefreshDue(t) THEN PrunedCooldowns(rate_limit_until, t) ELSE rate_limit_until

LastCheckAfterRefresh(t) ==
    IF QuotaRefreshDue(t) THEN t ELSE last_quota_check

\* mark_rate_limited: self._rate_limit_until[key] = time.time() + retry_after
WithCooldown(ms, rlu, t, m, retry_after_seconds) ==
    [k \in DOMAIN rlu \cup {get_model_key(ms, m)} |->
        IF k = get_model_key(ms, m) THEN t + retry_after_seconds ELSE rlu[k]]

\* mark_available clearing the whole dict
WithoutCooldown_Clear(ms, rlu, m) == EmptyDict

\* mark_available: del self._rate_limit_until[key] when present
WithoutCooldown(ms, rlu, m) ==
    [k \in DOMAIN rlu \ {get_model_key(ms, m)} |-> rlu[k]]

\* a ModelFailoverManager operation leaves the store and the runner alone
MgrOnly ==
    UNCHANGED <<tasks, runs, findings, current_run_id, config, history, calls,
                pc, run_id, start_time, stop_requested, cur, dispatched, faults, end_reason, run_status>>

\* model lists a manager is constructed with: distinct keys, any priorities
ModelLists ==
    {ms \in UNION {[1..n -> [key : ModelKeys, priority : 1..Cardinality(ModelKeys)]] :
                        n \in 0..Cardinality(ModelKeys)} :
        \A i, j \in DOMAIN ms : i # j => ms[i].key # ms[j].key}

RetryAfterSeconds == {TickStep, retry_after_default}

MgrInit ==
    /\ QueueInit
    /\ config = [flags |-> [enable_codebase_audit |-> TRUE,
                            enable_enhancement_recommendations |-> TRUE,
                            enable_tool_stack_research |-> TRUE],
                 projects |-> <<>>]
    /\ models \in ModelLists
    /\ rate_limit_until = EmptyDict
    /\ last_quota_check = 0
    /\ RunnerIdle
    /\ now = ClockStart

\* ModelFailoverManager.get_available_model
mgr_get_available_model ==
    /\ rate_limit_until' = CooldownsAfterRefresh(now)
    /\ last_quota_check' = LastCheckAfterRefresh(now)
    /\ ret' = [op |-> "get_available_model", arg |-> None,
               val |-> AvailableModel(models, rate_limit_until', now)]
    /\ UNCHANGED <<models, now>>
    /\ MgrOnly

\* ModelFailoverManager.all_exhausted
mgr_all_exhausted ==
    /\ rate_limit_until' = CooldownsAfterRefresh(now)
    /\ last_quota_check' = LastCheckAfterRefresh(now)
    /\ ret' = [op |-> "all_exhausted", arg |-> None,
               val |-> IF AvailableModel(models, rate_limit_until', now) = None THEN 1 ELSE 0]
    /\ UNCHANGED <<models, now>>
    /\ MgrOnly

\* ModelFailoverManager.mark_rate_limited
mgr_mark_rate_limited ==
    \E m \in ModelIds, retry \in RetryAfterSeconds :
        /\ rate_limit_until' = WithCooldown(models, rate_limit_until, now, m, retry)
        /\ ret' = [op |-> "mark_rate_limited", arg |-> m, val |-> None]
        /\ UNCHANGED <<models, last_quota_check, now>>
        /\ MgrOnly

\* ModelFailoverManager.mark_available
mgr_mark_available ==
    \E m \in ModelIds :
        /\ rate_limit_until' = WithoutCooldown(models, rate_limit_until, m)
        /\ ret' = [op |-> "mark_available", arg |-> m, val |-> None]
        /\ UNCHANGED <<models, last_quota_check, now>>
        /\ MgrOnly

\* get_status: per model of self.models, available when now is past its
\* cooldown, else the seconds left and the time of the retry
StatusOf(ms, rlu, t) ==
    [k \in {get_model_key(ms, m) : m \in DOMAIN ms} |->
        IF t > DictGet(rlu, k)
        THEN [available |-> TRUE]
        ELSE [available |-> FALSE,
              retry_after_seconds |-> DictGet(rlu, k) - t,
              retry_at |-> DictGet(rlu, k)]]

\* ModelFailoverManager.get_status: reads the dict as it is, without the
\* maintenance step
mgr_get_status ==
    /\ ret' = [op |-> "get_status", arg |-> None,
               val |-> StatusOf(models, rate_limit_until, now)]
    /\ UNCHANGED <<models, rate_limit_until, last_quota_check, now>>
    /\ MgrOnly

\* time passes
mgr_tick ==
    /\ now < ClockEnd
    /\ now' = now + TickStep
    /\ ret' = NoRet
    /\ UNCHANGED <<models, rate_limit_until, last_quota_check>>
    /\ MgrOnly

MgrNext ==
    \/ mgr_get_available_model
    \/ mgr_all_exhausted
    \/ mgr_mark_rate_limited
    \/ mgr_mark_available
    \/ mgr_get_status
    \/ mgr_tick

MgrSpec == MgrInit /\ [][MgrNext]_vars

(***************************************************************************)
(* NightshiftRunner                                                        *)
(***************************************************************************)

\* a duration budget of twice the configured hours
max_seconds_Doubled == MaxDurationHours * 7200

\* config.max_duration_hours * 3600 and config.quota_check_interval_minutes * 60
max_seconds == MaxDurationHours * 3600
quota_check_interval_minutes == 30
\* the sleep of the quota wait taken in seconds instead of minutes
quota_sleep_seconds_Unscaled == quota_check_interval_minutes

quota_sleep_seconds == quota_check_interval_minutes * 60
\* tokens_used passed to mark_completed by _execute_task
TOKENS_PER_TASK == 1000

\* the runner's clock is observed in steps of one hour
RunnerTickStep == 2 * TickStep
RunnerClockEnd == ClockStart + max_seconds + RunnerTickStep

\* create_default_manager: the preferred chain with priorities 1..n
DefaultModels ==
    << [key |-> "google/p1", priority |-> 1], [key |-> "openai/p2", priority |-> 2] >>

ProjectLists == { <<"p1">>, <<"p1", "p2">> }

\* what OpencodeAgentClient.call_agent can hand back: success with an output
\* of some shape, or failure with an error text (a timeout and a provider
\* rate limit are failures with their own text)
AgentOutputs == {"[]", "valid_list", "non_json", "non_list", "bad_severity", "non_record"}
AgentErrors == {"Agent call timed out after 5 minutes", "429 rate limit exceeded"}
AgentResults ==
    [success : {TRUE}, output : AgentOutputs, error : {NoneStr}]
    \cup [success : {FALSE}, output : {""}, error : AgentErrors]

NominalResult == [success |-> TRUE, output |-> "[]", error |-> NoneStr]

\* the agent signalled a provider rate limit
IsRateLimitSignal(res) == ~res.success /\ res.error = "429 rate limit exceeded"

\* _call_opencode_agent: the output on success, else raise Exception(error)
CallOpencodeAgent(res) ==
    IF res.success
    THEN [exc |-> NoneStr, msg |-> NoneStr, value |-> res.output]
    ELSE [exc |-> "Exception", msg |-> res.error, value |-> NoneStr]

\* _get_agent_for_task
_get_agent_for_task(task_type) ==
    IF task_type \in {"dependency_updates", "sota_alternatives", "integration_opportunities"}
    THEN "librarian" ELSE "explore"

\* the arguments client.call_agent receives from _call_opencode_agent for a
\* task: the agent type and the prompt, formatted with the project's name
\* and path, are passed; project_path and model keep their default None
CallAgentArguments(task) ==
    [agent_type |-> _get_agent_for_task(task.task_type),
     prompt |-> [project_name |-> task.project_name, project_path |-> task.project_path],
     project_path |-> NoneStr,
     model |-> NoneStr]

Finding(task_id, severity, title) == [task_id |-> task_id, severity |-> severity, title |-> title]

\* _parse_findings: the findings built from an output, or the exception that
\* leaves it (JSONDecodeError, KeyError and ValueError are caught inside)
ParseFindings(output, task_id) ==
    CASE output = "[]" -> [exc |-> NoneStr, msg |-> NoneStr, findings |-> <<>>]
      [] output = "valid_list" ->
            [exc |-> NoneStr, msg |-> NoneStr,
             findings |-> <<Finding(task_id, "high", "T1")>>]
      [] output = "non_json" ->
            [exc |-> NoneStr, msg |-> NoneStr,
             findings |-> <<Finding(task_id, "info", "Raw Analysis Output")>>]
      [] output = "non_list" -> [exc |-> NoneStr, msg |-> NoneStr, findings |-> <<>>]
      [] output = "bad_severity" ->
            [exc |-> NoneStr, msg |-> NoneStr,
             findings |-> <<Finding(task_id, "high", "T1"),
                            Finding(task_id, "info", "Raw Analysis Output")>>]
      [] output = "non_record" ->
            [exc |-> "AttributeError", msg |-> "'str' object has no attribute 'get'",
             findings |-> <<>>]

\* the executions the environment chooses from: an agent result and the
\* place of the try block where a store write fails ("none", "save_finding"
\* or "mark_completed"): any agent result with working writes, and a failing
\* write after an output with or without findings
Executions ==
    (AgentResults \X {"none"})
    \cup ({r \in AgentResults : r.success /\ r.output \in {"valid_list", "bad_severity"}}
            \X {"save_finding"})
    \cup ({r \in AgentResults : r.success /\ r.output \in {"[]", "valid_list"}}
            \X {"mark_completed"})

\* the try block of _execute_task: the exception that leaves it (if any), the
\* findings saved before, and the result text
TryBlock(res, task_id, wf) ==
    LET called == CallOpencodeAgent(res)
        parsed == ParseFindings(called.value, task_id)
    IN  IF called.exc # NoneStr
        THEN [exc |-> called.exc, msg |-> called.msg, saved |-> <<>>, result |-> NoneStr]
        ELSE IF parsed.exc # NoneStr
        THEN [exc |-> parsed.exc, msg |-> parsed.msg, saved |-> <<>>, result |-> called.value]
        ELSE IF wf = "save_finding" /\ parsed.findings # <<>>
        THEN [exc |-> "OperationalError", msg |-> "database is locked",
              saved |-> SubSeq(parsed.findings, 1, Len(parsed.findings) - 1),
              result |-> called.value]
        ELSE IF wf = "mark_completed"
        THEN [exc |-> "OperationalError", msg |-> "database is locked",
              saved |-> parsed.findings, result |-> called.value]
        ELSE [exc |-> NoneStr, msg |-> NoneStr, saved |-> parsed.findings,
              result |-> called.value]

\* the except clauses of _execute_task: the error text written by mark_failed
FailureText(outcome) ==
    IF outcome.exc = "RateLimitError" THEN "Rate limited" ELSE outcome.msg

\* the except clauses of _execute_task: the cooldowns after the handler
CooldownsAfterFailure(outcome, m) ==
    IF outcome.exc = "RateLimitError"
    THEN WithCooldown(models, rate_limit_until, now, m, retry_after_default)
    ELSE rate_limit_until

\* what the agent call handed back, as kept for the iteration in flight
ResultLabel(res) == IF res.success THEN res.output ELSE res.error

\* a task execution is nominal when the agent answers "[]" and every write
\* succeeds; any other execution counts as one deviation
Cost(res, wf) == IF res = NominalResult /\ wf = "none" THEN 0 ELSE 1

\* rows a store may hold when the runner opens it: nothing, or the pending
\* tasks of an earlier run that never got to execute them
PriorTasks(cfg) == { <<>>, GeneratedTasks(cfg, "p1", 1) }

RunnerInit ==
    /\ \E f \in Flags, pl \in ProjectLists :
          /\ Len(pl) * Len(all_task_types(f)) <= MaxRunTasks
          /\ config = [flags |-> f, projects |-> pl]
          /\ tasks \in PriorTasks(f)
    /\ runs = IF tasks = <<>> THEN <<>> ELSE <<RunRow(ClockStart)>>
    /\ dispatched = [t \in DOMAIN tasks |-> 0]
    /\ history = EmptyHistory
    /\ findings = <<>>
    /\ current_run_id = None
    /\ ret = NoRet
    /\ calls = 0
    /\ models = DefaultModels
    /\ rate_limit_until = EmptyDict
    /\ last_quota_check = 0
    /\ now = ClockStart
    /\ pc = "idle"
    /\ run_id = None
    /\ start_time = 0
    /\ stop_requested = FALSE
    /\ cur = NoCur
    /\ faults = 0
    /\ end_reason = NoneStr
    /\ run_status = "idle"

\* setup_tasks that generates the tasks of the first project only
SetupTasks_FirstProjectOnly(cfg, projects, rid) ==
    IF projects = <<>> THEN <<>> ELSE GeneratedTasks(cfg, Head(projects), rid)

\* rows written by setup_tasks: generate_tasks_for_project for each project
RECURSIVE SetupTasks(_, _, _)
SetupTasks(cfg, projects, rid) ==
    IF projects = <<>> THEN <<>>
    ELSE GeneratedTasks(cfg, Head(projects), rid) \o SetupTasks(cfg, Tail(projects), rid)

\* run(): start_time = time.time(); setup_tasks(); enter the loop
runner_start ==
    /\ pc = "idle"
    /\ start_time' = now
    /\ CreateRunEffect
    /\ run_id' = Len(runs) + 1
    /\ tasks' = tasks \o SetupTasks(config.flags, config.projects, Len(runs) + 1)
    /\ dispatched' = [t \in DOMAIN tasks' |-> IF t \in DOMAIN dispatched THEN dispatched[t] ELSE 0]
    /\ pc' = "loop"
    /\ ret' = NoRet
    /\ UNCHANGED <<findings, config, history, calls, models, rate_limit_until, last_quota_check, now,
                   stop_requested, cur, faults, end_reason>>
    /\ UNCHANGED run_status

\* leaving the loop: _generate_report is next
LeaveLoop(reason) ==
    /\ pc' = "report"
    /\ end_reason' = reason
    /\ ret' = NoRet
    /\ UNCHANGED <<tasks, runs, findings, current_run_id, config, history, calls, models,
                   rate_limit_until, last_quota_check, now, run_id, start_time,
                   stop_requested, cur, dispatched, faults>>
    /\ UNCHANGED run_status

\* while not self._stop_requested: the flag is set at the loop test
runner_sees_stop ==
    /\ pc = "loop"
    /\ stop_requested
    /\ LeaveLoop("stop_requested")

\* elapsed >= max_seconds: break
runner_duration_exceeded ==
    /\ pc = "loop"
    /\ ~stop_requested
    /\ now - start_time >= max_seconds
    /\ LeaveLoop("duration_exceeded")

\* get_next_pending_task() returned None: break
runner_queue_empty ==
    /\ pc = "loop"
    /\ ~stop_requested
    /\ now - start_time < max_seconds
    /\ None \in get_next_pending_task_results(None)
    /\ LeaveLoop("queue_empty")

\* one iteration that dequeued a task: without an available model sleep and
\* continue, else _execute_task marks the task in progress and calls the agent
runner_dispatch ==
    /\ pc = "loop"
    /\ ~stop_requested
    /\ now - start_time < max_seconds
    /\ \E task \in get_next_pending_task_results(None) :
          /\ task # None
          /\ rate_limit_until' = CooldownsAfterRefresh(now)
          /\ last_quota_check' = LastCheckAfterRefresh(now)
          /\ LET model == AvailableModel(models, rate_limit_until', now)
             IN  IF model = None
                 THEN /\ now' = now + quota_sleep_seconds
                      /\ UNCHANGED <<tasks, cur, dispatched, pc>>
                 ELSE /\ tasks' = MarkInProgressRow(tasks, task, get_model_key(models, model))
                      /\ cur' = [task |-> task, model |-> model, result |-> NoneStr]
                      /\ dispatched' = [dispatched EXCEPT ![task] = @ + 1]
                      /\ pc' = "calling"
                      /\ UNCHANGED now
    /\ ret' = NoRet
    /\ UNCHANGED <<runs, findings, current_run_id, config, history, calls, models, run_id,
                   start_time, stop_requested, faults, end_reason>>
    /\ UNCHANGED run_status

\* the same iteration when the write of mark_in_progress fails: the call is
\* outside the try block, the exception leaves run()
runner_mark_in_progress_raises ==
    /\ pc = "loop"
    /\ ~stop_requested
    /\ now - start_time < max_seconds
    /\ faults < MaxFaults
    /\ \E task \in get_next_pending_task_results(None) :
          /\ task # None
          /\ rate_limit_until' = CooldownsAfterRefresh(now)
          /\ last_quota_check' = LastCheckAfterRefresh(now)
          /\ AvailableModel(models, rate_limit_until', now) # None
          /\ cur' = [task |-> task, model |-> AvailableModel(models, rate_limit_until', now),
                     result |-> NoneStr]
    /\ faults' = faults + 1
    /\ pc' = "raised"
    /\ end_reason' = "exception"
    /\ ret' = [op |-> "run", arg |-> None, val |-> "OperationalError"]
    /\ UNCHANGED <<tasks, runs, findings, current_run_id, config, history, calls, models, now,
                   run_id, start_time, stop_requested, dispatched>>
    /\ UNCHANGED run_status

\* the agent call returns and the try block runs to its end
runner_task_completed ==
    /\ pc = "calling"
    /\ \E res \in AgentResults :
          LET outcome == TryBlock(res, cur.task, "none")
          IN  /\ outcome.exc = NoneStr
              /\ faults + Cost(res, "none") <= MaxFaults
              /\ faults' = faults + Cost(res, "none")
              /\ findings' = findings \o outcome.saved
              /\ tasks' = MarkCompletedRow(tasks, cur.task, TOKENS_PER_TASK, outcome.result)
              /\ cur' = [cur EXCEPT !.result = ResultLabel(res)]
    /\ pc' = "loop"
    /\ ret' = NoRet
    /\ UNCHANGED <<runs, current_run_id, config, history, calls, models, rate_limit_until,
                   last_quota_check, now, run_id, start_time, stop_requested,
                   dispatched, end_reason>>
    /\ UNCHANGED run_status

\* an exception leaves the try block and the handler marks the task failed
runner_task_failed ==
    /\ pc = "calling"
    /\ \E ex \in Executions :
          LET res == ex[1]
              wf == ex[2]
              outcome == TryBlock(res, cur.task, wf)
          IN  /\ outcome.exc # NoneStr
              /\ faults + Cost(res, wf) <= MaxFaults
              /\ faults' = faults + Cost(res, wf)
              /\ findings' = findings \o outcome.saved
              /\ rate_limit_until' = CooldownsAfterFailure(outcome, cur.model)
              /\ tasks' = MarkFailedRow(tasks, cur.task, FailureText(outcome))
              /\ cur' = [cur EXCEPT !.result = ResultLabel(res)]
    /\ pc' = "loop"
    /\ ret' = NoRet
    /\ UNCHANGED <<runs, current_run_id, config, history, calls, models, last_quota_check, now,
                   run_id, start_time, stop_requested, dispatched, end_reason>>
    /\ UNCHANGED run_status

\* an exception leaves the try block and the write of mark_failed fails too:
\* the exception leaves the handler and run()
runner_mark_failed_raises ==
    /\ pc = "calling"
    /\ \E ex \in Executions :
          LET res == ex[1]
              wf == ex[2]
              outcome == TryBlock(res, cur.task, wf)
          IN  /\ outcome.exc # NoneStr
              /\ faults < MaxFaults
              /\ faults' = faults + 1
              /\ findings' = findings \o outcome.saved
              /\ rate_limit_until' = CooldownsAfterFailure(outcome, cur.model)
              /\ cur' = [cur EXCEPT !.result = ResultLabel(res)]
    /\ pc' = "raised"
    /\ end_reason' = "exception"
    /\ ret' = [op |-> "run", arg |-> None, val |-> "OperationalError"]
    /\ UNCHANGED <<tasks, runs, current_run_id, config, history, calls, models, last_quota_check,
                   now, run_id, start_time, stop_requested, dispatched>>
    /\ UNCHANGED run_status

\* get_findings_for_project: the findings joined with their tasks on
\* project_name, and on run_id when one is resolved
FindingsForProject(tbl, fnd, project_name, active_run_id) ==
    SelectSeq(fnd, LAMBDA f :
        /\ f.task_id \in DOMAIN tbl
        /\ tbl[f.task_id].project_name = project_name
        /\ (active_run_id # None => tbl[f.task_id].run_id = active_run_id))

\* a _generate_report whose total_tasks leaves the failed tasks out
ReportOf_NoFailed(tbl, fnd, projects, active_run_id, rid, ms) ==
    LET stats == StatisticsOf(tbl, active_run_id)
    IN  [run_id |-> rid,
         projects |-> [i \in DOMAIN projects |->
                          [name |-> projects[i],
                           findings |-> FindingsForProject(tbl, fnd, projects[i], active_run_id),
                           tasks_completed |-> stats.completed]],
         total_tasks |-> stats.pending + stats.completed,
         completed_tasks |-> stats.completed,
         failed_tasks |-> stats.failed,
         total_tokens |-> stats.total_tokens,
         models_used |-> [m \in DOMAIN ms |-> get_model_key(ms, m)]]

\* the NightshiftReport _generate_report builds from get_statistics(), one
\* ProjectReport per configured project (its findings, and the completed
\* count of the statistics as tasks_completed), total_tasks as the sum of
\* the pending, completed and failed counts, the keys of get_status()
ReportOf(tbl, fnd, projects, active_run_id, rid, ms) ==
    LET stats == StatisticsOf(tbl, active_run_id)
    IN  [run_id |-> rid,
         projects |-> [i \in DOMAIN projects |->
                          [name |-> projects[i],
                           findings |-> FindingsForProject(tbl, fnd, projects[i], active_run_id),
                           tasks_completed |-> stats.completed]],
         total_tasks |-> stats.pending + stats.completed + stats.failed,
         completed_tasks |-> stats.completed,
         failed_tasks |-> stats.failed,
         total_tokens |-> stats.total_tokens,
         models_used |-> [m \in DOMAIN ms |-> get_model_key(ms, m)]]

\* _generate_report: run() returns the report built from get_statistics();
\* val keeps the statistics it was built from, report the NightshiftReport
runner_generate_report ==
    /\ pc = "report"
    /\ pc' = "done"
    /\ ret' = [op |-> "run", arg |-> None, val |-> get_statistics(None),
               report |-> ReportOf(tasks, findings, config.projects,
                                   _resolve_run_id(None), run_id, models)]
    /\ UNCHANGED <<tasks, runs, findings, current_run_id, config, history, calls, models,
                   rate_limit_until, last_quota_check, now, run_id, start_time,
                   stop_requested, cur, dispatched, faults, end_reason>>
    /\ UNCHANGED run_status

\* a stop() that also abandons the agent call in flight
runner_stop_Preemptive ==
    /\ pc \in {"loop", "calling"}
    /\ ~stop_requested
    /\ stop_requested' = TRUE
    /\ pc' = "loop"
    /\ UNCHANGED <<tasks, runs, findings, current_run_id, config, history, ret, calls, models,
                   rate_limit_until, last_quota_check, now, run_id, start_time,
                   cur, dispatched, faults, end_reason>>
    /\ UNCHANGED run_status

\* NightshiftRunner.stop, called from another thread
runner_stop ==
    /\ pc \in {"loop", "calling"}
    /\ ~stop_requested
    /\ stop_requested' = TRUE
    /\ UNCHANGED <<tasks, runs, findings, current_run_id, config, history, ret, calls, models,
                   rate_limit_until, last_quota_check, now, pc, run_id, start_time,
                   cur, dispatched, faults, end_reason>>
    /\ UNCHANGED run_status

\* time passes while the agent call is awaited
runner_tick ==
    /\ pc = "calling"
    /\ now < RunnerClockEnd
    /\ now' = now + RunnerTickStep
    /\ UNCHANGED <<tasks, runs, findings, current_run_id, config, history, ret, calls, models,
                   rate_limit_until, last_quota_check, pc, run_id, start_time,
                   stop_requested, cur, dispatched, faults, end_reason>>
    /\ UNCHANGED run_status

RunnerNext ==
    \/ runner_start
    \/ runner_sees_stop
    \/ runner_duration_exceeded
    \/ runner_queue_empty
    \/ runner_dispatch
    \/ runner_mark_in_progress_raises
    \/ runner_task_completed
    \/ runner_task_failed
    \/ runner_mark_failed_raises
    \/ runner_generate_report
    \/ runner_stop
    \/ runner_tick

RunnerSpec == RunnerInit /\ [][RunnerNext]_vars

(***************************************************************************)
(* NightshiftRunner.run() with a stub agent that always succeeds with "[]" *)
(* and a store whose writes succeed: the environment has no deviation left *)
(* to spend, it only lets time pass and may call stop()                    *)
(***************************************************************************)

\* NightshiftConfig.priority_mode
PriorityModes == {"balanced", "security_first"}

NominalInit ==
    /\ \E f \in Flags, pl \in ProjectLists, mode \in PriorityModes :
          /\ config = [flags |-> f, projects |-> pl, priority_mode |-> mode]
          /\ tasks \in PriorTasks(f)
    /\ runs = IF tasks = <<>> THEN <<>> ELSE <<RunRow(ClockStart)>>
    /\ dispatched = [t \in DOMAIN tasks |-> 0]
    /\ history = EmptyHistory
    /\ findings = <<>>
    /\ current_run_id = None
    /\ ret = NoRet
    /\ calls = 0
    /\ models = DefaultModels
    /\ rate_limit_until = EmptyDict
    /\ last_quota_check = 0
    /\ now = ClockStart
    /\ pc = "idle"
    /\ run_id = None
    /\ start_time = 0
    /\ stop_requested = FALSE
    /\ cur = NoCur
    /\ faults = MaxFaults
    /\ end_reason = NoneStr
    /\ run_status = "idle"

NominalNext ==
    \/ runner_start
    \/ runner_sees_stop
    \/ runner_duration_exceeded
    \/ runner_queue_empty
    \/ runner_dispatch
    \/ runner_task_completed
    \/ runner_generate_report
    \/ runner_stop
    \/ runner_tick

NominalSpec == NominalInit /\ [][NominalNext]_vars

(***************************************************************************)
(* DiffReportGenerator                                                     *)
(***************************************************************************)

\* record_run keeps the last 30 run records
HistoryLimit == 30

\* findings handed to record_run and compute_diff; the first two differ in
\* location only (None and "global")
FindingA == [title |-> "First issue", location |-> NoneStr, severity |-> "high"]
FindingAGlobal == [title |-> "First issue", location |-> "global", severity |-> "high"]
FindingB == [title |-> "Second issue", location |-> NoneStr, severity |-> "high"]
FindingC == [title |-> "Third issue", location |-> "src/app.py", severity |-> "low"]

FindingLists ==
    { <<>>, <<FindingA>>, <<FindingB>>, <<FindingAGlobal>>, <<FindingA, FindingB>>,
      <<FindingB, FindingC>>, <<FindingA, FindingAGlobal>> }

\* _finding_signature: f"{title}|{location or 'global'}|{severity}", kept as
\* the triple of its three parts (no part holds a "|")
_finding_signature(finding) ==
    <<finding.title,
      IF finding.location = NoneStr THEN "global" ELSE finding.location,
      finding.severity>>

Signatures(fs) == [i \in DOMAIN fs |-> _finding_signature(fs[i])]

SeqRange(q) == {q[i] : i \in DOMAIN q}

\* record_run, loop over the findings: finding_data is stored for a signature
\* the first time the signature is seen
RECURSIVE FirstSeen(_, _)
FirstSeen(known, fs) ==
    IF fs = <<>> THEN known
    ELSE LET sig == _finding_signature(Head(fs))
             next == IF sig \in DOMAIN known THEN known
                     ELSE [s \in DOMAIN known \cup {sig} |->
                              IF s = sig THEN Head(fs) ELSE known[s]]
         IN  FirstSeen(next, Tail(fs))

\* a record_run that keeps the first 30 records
HistoryAfterRecord_KeepsOldest(h, rid, fs) ==
    LET appended == Append(h.runs, [run_id |-> rid, finding_signatures |-> Signatures(fs)])
        kept == IF Len(appended) > HistoryLimit THEN SubSeq(appended, 1, HistoryLimit)
                ELSE appended
    IN  [runs |-> kept, findings |-> FirstSeen(h.findings, fs)]

\* record_run(run_id, findings)
HistoryAfterRecord(h, rid, fs) ==
    LET appended == Append(h.runs, [run_id |-> rid, finding_signatures |-> Signatures(fs)])
        kept == IF Len(appended) > HistoryLimit
                THEN SubSeq(appended, Len(appended) - HistoryLimit + 1, Len(appended))
                ELSE appended
    IN  [runs |-> kept, findings |-> FirstSeen(h.findings, fs)]

\* compute_diff, choice of previous_run: the first record whose run_id is
\* compare_to_run_id, the last record when no id is given; the index of the
\* record, None when there is none
PreviousRun(h, compare_to_run_id) ==
    IF compare_to_run_id # None
    THEN LET hits == {i \in DOMAIN h.runs : h.runs[i].run_id = compare_to_run_id}
         IN  IF hits = {} THEN None ELSE CHOOSE i \in hits : \A j \in hits : i <= j
    ELSE IF h.runs = <<>> THEN None ELSE Len(h.runs)

\* the keys of the dict current_sigs, in insertion order
RECURSIVE DictKeys(_)
DictKeys(fs) ==
    IF fs = <<>> THEN <<>>
    ELSE LET rest == DictKeys(SubSeq(fs, 1, Len(fs) - 1))
             sig == _finding_signature(fs[Len(fs)])
         IN  IF sig \in SeqRange(rest) THEN rest ELSE Append(rest, sig)

\* current_sigs[sig]: the last finding of the list with that signature
DictValue(fs, sig) ==
    LET at == {i \in DOMAIN fs : _finding_signature(fs[i]) = sig}
    IN  fs[CHOOSE i \in at : \A j \in at : j <= i]

\* compute_diff that reports every signature of the previous run as fixed
FixedSigs_AllPrevious(h, p, fs) ==
    {sig \in SeqRange(h.runs[p].finding_signatures) : sig \in DOMAIN h.findings}

\* compute_diff: the signatures of the previous run p that are not among the
\* current ones and have finding_data in the history
FixedSigs(h, p, fs) ==
    {sig \in SeqRange(h.runs[p].finding_signatures) :
        sig \notin SeqRange(DictKeys(fs)) /\ sig \in DOMAIN h.findings}

\* the orders in which "for sig in previous_sigs" may visit a set
Orders(S) ==
    {q \in [1..Cardinality(S) -> S] : \A i, j \in 1..Cardinality(S) : q[i] = q[j] => i = j}

\* the orders of fixed_findings a call of compute_diff may produce
FixedOrders(h, fs, compare_to_run_id) ==
    LET p == PreviousRun(h, compare_to_run_id)
    IN  IF p = None THEN {<<>>} ELSE Orders(FixedSigs(h, p, fs))

\* a diff without baseline that reports nothing
NoBaselineDiff_Empty(fs) ==
    [new_findings |-> <<>>, fixed_findings |-> <<>>, persistent_findings |-> <<>>]

\* compute_diff without a run to compare to (no history, or no record with
\* the id asked for): the list current_findings itself is returned as new
NoBaselineDiff(fs) ==
    [new_findings |-> fs, fixed_findings |-> <<>>, persistent_findings |-> <<>>]

\* compute_diff(current_findings, compare_to_run_id), with the fixed findings
\* rebuilt from finding_data in the order fixed_order
ComputeDiff(h, fs, compare_to_run_id, fixed_order) ==
    LET p == PreviousRun(h, compare_to_run_id)
    IN  IF p = None
        THEN NoBaselineDiff(fs)
        ELSE LET previous_sigs == SeqRange(h.runs[p].finding_signatures)
                 IsNew(sig) == sig \notin previous_sigs
                 IsPersistent(sig) == sig \in previous_sigs
                 new_keys == SelectSeq(DictKeys(fs), IsNew)
                 persistent_keys == SelectSeq(DictKeys(fs), IsPersistent)
             IN  [new_findings |-> [i \in DOMAIN new_keys |-> DictValue(fs, new_keys[i])],
                  fixed_findings |-> [i \in DOMAIN fixed_order |-> h.findings[fixed_order[i]]],
                  persistent_findings |->
                      [i \in DOMAIN persistent_keys |-> DictValue(fs, persistent_keys[i])]]

\* a DiffReportGenerator operation leaves the queue, the manager and the runner alone
DiffOnly ==
    UNCHANGED <<tasks, runs, findings, current_run_id, config, calls,
                models, rate_limit_until, last_quota_check, now,
                pc, run_id, start_time, stop_requested, cur, dispatched, faults, end_reason, run_status>>

DiffInit ==
    /\ QueueInit
    /\ config = [flags |-> [enable_codebase_audit |-> TRUE,
                            enable_enhancement_recommendations |-> TRUE,
                            enable_tool_stack_research |-> TRUE],
                 projects |-> <<>>]
    /\ MgrIdle
    /\ RunnerIdle
    /\ now = ClockStart

\* DiffReportGenerator.record_run: the runs are recorded in sequence, the
\* n-th record carries run id n
record_run ==
    \E fs \in FindingLists :
        /\ Len(history.runs) < MaxHistory
        /\ history' = HistoryAfterRecord(history, Len(history.runs) + 1, fs)
        /\ ret' = NoRet
        /\ DiffOnly

\* DiffReportGenerator.compute_diff
compute_diff ==
    \E fs \in FindingLists, compare_to_run_id \in {None} \cup 1..MaxHistory :
        \E fixed_order \in FixedOrders(history, fs, compare_to_run_id) :
            /\ ret' = [op |-> "compute_diff",
                       arg |-> [current_findings |-> fs, compare_to_run_id |-> compare_to_run_id],
                       val |-> ComputeDiff(history, fs, compare_to_run_id, fixed_order)]
            /\ UNCHANGED history
            /\ DiffOnly

DiffNext ==
    \/ record_run
    \/ compute_diff

DiffSpec == DiffInit /\ [][DiffNext]_vars

(***************************************************************************)
(* DiffReportGenerator with a history that outgrows its limit              *)
(* (specification HistSpec).  calls counts the record_run calls; the n-th  *)
(* call records run id n.  The first two runs are recorded with any of    *)
(* the finding lists, the later ones with the findings of the run two      *)
(* before, so that the number of histories stays small while the limit is  *)
(* passed.                                                                 *)
(***************************************************************************)

\* the finding lists the n-th record_run of a history h may be called with
FindingsOfCall(h, n) ==
    IF n <= 2 THEN FindingLists
    ELSE LET sigs == h.runs[Len(h.runs) - 1].finding_signatures
         IN  {CHOOSE fs \in FindingLists : Signatures(fs) = sigs}

\* the run ids compute_diff is asked to compare to: none, the first run,
\* the run before the last
CompareIds == {None, 1} \cup (IF calls > 1 THEN {calls - 1} ELSE {})

\* DiffReportGenerator.record_run, the n-th call
hist_record_run ==
    \E fs \in FindingsOfCall(history, calls + 1) :
        /\ calls < MaxRecords
        /\ calls' = calls + 1
        /\ history' = HistoryAfterRecord(history, calls + 1, fs)
        /\ ret' = [op |-> "record_run", arg |-> fs, val |-> None]
        /\ UNCHANGED <<tasks, runs, findings, current_run_id, config>>
        /\ QueueOnly

\* DiffReportGenerator.compute_diff
hist_compute_diff ==
    \E fs \in FindingLists, compare_to_run_id \in CompareIds :
        \E fixed_order \in FixedOrders(history, fs, compare_to_run_id) :
            /\ ret' = [op |-> "compute_diff",
                       arg |-> [current_findings |-> fs, compare_to_run_id |-> compare_to_run_id],
                       val |-> ComputeDiff(history, fs, compare_to_run_id, fixed_order)]
            /\ UNCHANGED history
            /\ DiffOnly

HistNext ==
    \/ hist_record_run
    \/ hist_compute_diff

HistSpec == DiffInit /\ [][HistNext]_vars

(***************************************************************************)
(* The whole write surface of the TaskQueue: the client of Spec with       *)
(* save_finding, update_task_priorities and finalize_run added             *)
(***************************************************************************)

\* the model keys a row can hold, in the order of "ORDER BY model_used"
SortedModelKeys == <<"google/p1", "openai/p2", "openai/test">>

\* get_models_used: the distinct non-null model_used of the rows of the run
\* (of all rows without a run), in ascending order
ModelsUsedIn(tbl, active_run_id) ==
    SelectSeq(SortedModelKeys,
              LAMBDA k : \E t \in DOMAIN tbl :
                            /\ tbl[t].model_used = k
                            /\ (active_run_id # None => tbl[t].run_id = active_run_id))

\* a finalize_run that adds the counts to those the record already holds
FinalizedRuns_Accumulating(rs, tbl, active_run_id, t) ==
    IF active_run_id = None \/ active_run_id \notin DOMAIN rs THEN rs
    ELSE LET stats == StatisticsOf(tbl, active_run_id)
         IN  [rs EXCEPT ![active_run_id] =
                [started_at |-> @.started_at,
                 completed_at |-> t,
                 total_tasks |-> @.total_tasks + stats.pending + stats.in_progress
                                   + stats.completed + stats.failed + stats.skipped,
                 completed_tasks |-> @.completed_tasks + stats.completed,
                 failed_tasks |-> @.failed_tasks + stats.failed,
                 total_tokens |-> @.total_tokens + stats.total_tokens,
                 models_used_json |-> ModelsUsedIn(tbl, active_run_id)]]

\* finalize_run: "UPDATE runs SET ... WHERE id = active_run_id" with the
\* statistics and the models of that run, stamped with time t; nothing is
\* written without a resolved run id; total_tasks sums the counts of all
\* five statuses; models_used_json keeps the list json.dumps encodes
FinalizedRuns(rs, tbl, active_run_id, t) ==
    IF active_run_id = None \/ active_run_id \notin DOMAIN rs THEN rs
    ELSE LET stats == StatisticsOf(tbl, active_run_id)
         IN  [rs EXCEPT ![active_run_id] =
                [started_at |-> @.started_at,
                 completed_at |-> t,
                 total_tasks |-> stats.pending + stats.in_progress + stats.completed
                                   + stats.failed + stats.skipped,
                 completed_tasks |-> stats.completed,
                 failed_tasks |-> stats.failed,
                 total_tokens |-> stats.total_tokens,
                 models_used_json |-> ModelsUsedIn(tbl, active_run_id)]]

\* TaskQueue.finalize_run(run_id) called by the client, run_id omitted when
\* rid = None; datetime.now() is later at every call
finalize_run ==
    \E rid \in {None} \cup RunIds :
        /\ calls < MaxCalls
        /\ calls' = calls + 1
        /\ now < ClockEnd
        /\ now' = now + TickStep
        /\ runs' = FinalizedRuns(runs, tasks, _resolve_run_id(rid), now')
        /\ ret' = [op |-> "finalize_run", arg |-> rid, val |-> None]
        /\ UNCHANGED <<tasks, findings, current_run_id, config, history>>
        /\ UNCHANGED <<models, rate_limit_until, last_quota_check,
                       pc, run_id, start_time, stop_requested, cur, dispatched, faults, end_reason>>
        /\ UNCHANGED run_status

\* TaskQueue.save_finding(task_id, finding) called by the client: one row
\* inserted into findings
save_finding ==
    \E t \in TaskIds :
        /\ calls < MaxCalls
        /\ calls' = calls + 1
        /\ findings' = Append(findings, Finding(t, "high", "T1"))
        /\ ret' = NoRet
        /\ UNCHANGED <<tasks, runs, current_run_id, config, history>>
        /\ QueueOnly

\* the task lists a prioritizer hands to update_task_priorities: the tasks
\* of one run with one of them moved to the front
FrontFirst(tbl, t) ==
    <<t>> \o SelectSeq([i \in 1..Len(tbl) |-> i],
                       LAMBDA u : u # t /\ tbl[u].run_id = tbl[t].run_id)

\* an update_task_priorities that saves the listed tasks again as pending
WithPriorities_Resave(tbl, ordered_tasks) ==
    [u \in DOMAIN tbl |->
        IF \E i \in DOMAIN ordered_tasks : ordered_tasks[i] = u
        THEN [tbl[u] EXCEPT !.status = PENDING,
                            !.priority = CHOOSE i \in DOMAIN ordered_tasks : ordered_tasks[i] = u]
        ELSE tbl[u]]

\* an update_task_priorities that counts the positions from 0
WithPriorities_FromZero(tbl, ordered_tasks) ==
    [u \in DOMAIN tbl |->
        IF \E i \in DOMAIN ordered_tasks : ordered_tasks[i] = u
        THEN [tbl[u] EXCEPT !.priority =
                 (CHOOSE i \in DOMAIN ordered_tasks : ordered_tasks[i] = u) - 1]
        ELSE tbl[u]]

\* "UPDATE tasks SET priority = ? WHERE id = ?" for each task of the list,
\* the priority being its position counted from 1
WithPriorities(tbl, ordered_tasks) ==
    [u \in DOMAIN tbl |->
        IF \E i \in DOMAIN ordered_tasks : ordered_tasks[i] = u
        THEN [tbl[u] EXCEPT !.priority =
                 CHOOSE i \in DOMAIN ordered_tasks : ordered_tasks[i] = u]
        ELSE tbl[u]]

\* more task lists a caller hands to update_task_priorities: the pending
\* tasks of a run from the last generated to the first, and one task alone
PendingReversed(tbl, r) ==
    LET ids == SelectSeq([i \in 1..Len(tbl) |-> i],
                         LAMBDA u : tbl[u].run_id = r /\ tbl[u].status = PENDING)
    IN  [i \in 1..Len(ids) |-> ids[Len(ids) + 1 - i]]

OrderedTaskLists(tbl) ==
    {FrontFirst(tbl, t) : t \in DOMAIN tbl}
        \cup {PendingReversed(tbl, tbl[t].run_id) : t \in DOMAIN tbl}
        \cup {<<t>> : t \in DOMAIN tbl}

\* "task.priority = priority": the priority attribute of the i-th object of
\* the list after the loop
InMemoryPriorities(ordered_tasks) == [i \in DOMAIN ordered_tasks |-> i]

\* TaskQueue.update_task_priorities(ordered_tasks) called by the client
update_task_priorities ==
    \E ordered_tasks \in OrderedTaskLists(tasks) :
        /\ ordered_tasks # <<>>
        /\ calls < MaxCalls
        /\ calls' = calls + 1
        /\ tasks' = WithPriorities(tasks, ordered_tasks)
        /\ ret' = [op |-> "update_task_priorities", arg |-> ordered_tasks,
                   val |-> InMemoryPriorities(ordered_tasks)]
        /\ UNCHANGED <<runs, findings, current_run_id, config, history>>
        /\ QueueOnly

StoreNext ==
    \/ create_run
    \/ reopen
    \/ generate_tasks_for_project
    \/ mark_in_progress
    \/ mark_completed
    \/ mark_failed
    \/ save_finding
    \/ update_task_priorities
    \/ finalize_run
    \/ get_next_pending_task
    \/ get_statistics_call
    \/ get_pending_count_call

\* the store of a configuration with the research category enabled alone
StoreFlags ==
    {f \in Flags : /\ ~f.enable_codebase_audit
                   /\ ~f.enable_enhancement_recommendations
                   /\ f.enable_tool_stack_research}

\* the rows an earlier session left behind: the tasks of run 1 for project
\* p1, the first completed, the second failed, the third never started
PriorSessionTasks(cfg) ==
    LET rows == GeneratedTasks(cfg, "p1", 1)
        first == MarkCompletedRow(MarkInProgressRow(rows, 1, "google/p1"), 1, TOKENS_PER_TASK, "[]")
    IN  MarkFailedRow(MarkInProgressRow(first, 2, "openai/p2"), 2,
                      "Agent call timed out after 5 minutes")

\* TaskQueue.__post_init__ of a new instance on the store of an earlier
\* session: the tables are kept, the instance has no current run
StoreInit ==
    /\ \E f \in StoreFlags :
          /\ config = [flags |-> f, projects |-> <<>>]
          /\ tasks = PriorSessionTasks(f)
    /\ runs = <<RunRow(ClockStart)>>
    /\ findings = <<>>
    /\ history = EmptyHistory
    /\ current_run_id = None
    /\ ret = NoRet
    /\ calls = 0
    /\ MgrIdle
    /\ RunnerIdle
    /\ now = ClockStart

StoreSpec == StoreInit /\ [][StoreNext]_vars

(***************************************************************************)
(* Two NightshiftRunner instances on one store (specification TwoSpec).    *)
(* Each runner has its own TaskQueue instance, hence its own               *)
(* current_run_id, and its own manager; the tables are shared.  Here pc,   *)
(* run_id, current_run_id, config and cur hold one value per runner, and   *)
(* dispatched holds per task the set of runners that marked it in          *)
(* progress.  A step is one SQL statement (every statement of the queue    *)
(* commits on its own) or the return of the agent call.  The managers      *)
(* never cool a model down, the clock and stop() play no part.             *)
(***************************************************************************)
RunnerIds == {1, 2}

\* configurations of the two runners: one category enabled, one project
TwoFlags ==
    {f \in Flags : /\ ~f.enable_codebase_audit
                   /\ (f.enable_enhancement_recommendations # f.enable_tool_stack_research)}
TwoConfigs == [flags : TwoFlags, projects : { <<"p1">> }]

\* the agent answers "[]" or times out
TwoAgentResults ==
    {NominalResult,
     [success |-> FALSE, output |-> "", error |-> "Agent call timed out after 5 minutes"]}

TwoInit ==
    /\ tasks = <<>>
    /\ runs = <<>>
    /\ findings = <<>>
    /\ history = EmptyHistory
    /\ dispatched = <<>>
    /\ config \in [RunnerIds -> TwoConfigs]
    /\ config[1].flags.enable_tool_stack_research
    /\ current_run_id = [i \in RunnerIds |-> None]
    /\ run_id = [i \in RunnerIds |-> None]
    /\ pc = [i \in RunnerIds |-> "idle"]
    /\ cur = [i \in RunnerIds |-> NoCur]
    /\ ret = NoRet
    /\ calls = 0
    /\ models = DefaultModels
    /\ rate_limit_until = EmptyDict
    /\ last_quota_check = 0
    /\ now = ClockStart
    /\ start_time = 0
    /\ stop_requested = FALSE
    /\ faults = 0
    /\ end_reason = NoneStr
    /\ run_status = "idle"

\* what no step of the two runners changes
TwoOnly ==
    UNCHANGED <<findings, config, history, calls, models, rate_limit_until, last_quota_check,
                now, start_time, stop_requested, faults, end_reason, run_status>>

\* the rows setup_tasks of runner i has to save, and those it saved so far
RowsToSave(i) == SetupTasks(config[i].flags, config[i].projects, run_id[i])
RowsSaved(i) == Cardinality({t \in DOMAIN tasks : tasks[t].run_id = run_id[i]})

\* setup_tasks: self.run_id = self.task_queue.create_run()
two_create_run ==
    \E i \in RunnerIds :
        /\ pc[i] = "idle"
        /\ runs' = Append(runs, RunRow(now))
        /\ current_run_id' = [current_run_id EXCEPT ![i] = Len(runs) + 1]
        /\ run_id' = [run_id EXCEPT ![i] = Len(runs) + 1]
        /\ pc' = [pc EXCEPT ![i] = "setup"]
        /\ UNCHANGED <<tasks, cur, dispatched, ret>>
        /\ TwoOnly

\* setup_tasks: one _save_task of generate_tasks_for_project
two_save_task ==
    \E i \in RunnerIds :
        /\ pc[i] = "setup"
        /\ RowsSaved(i) < Len(RowsToSave(i))
        /\ tasks' = Append(tasks, RowsToSave(i)[RowsSaved(i) + 1])
        /\ dispatched' = Append(dispatched, {})
        /\ UNCHANGED <<runs, current_run_id, run_id, pc, cur, ret>>
        /\ TwoOnly

\* run(): setup_tasks is over, get_pending_count() is printed
two_enter_loop ==
    \E i \in RunnerIds :
        /\ pc[i] = "setup"
        /\ RowsSaved(i) = Len(RowsToSave(i))
        /\ ret' = [op |-> "get_pending_count", arg |-> i,
                   val |-> Cardinality(RowsWhere(tasks, PENDING, current_run_id[i]))]
        /\ pc' = [pc EXCEPT ![i] = "loop"]
        /\ UNCHANGED <<tasks, runs, current_run_id, run_id, cur, dispatched>>
        /\ TwoOnly

\* run(): get_next_pending_task() returned a task, a model is available
two_dequeue ==
    \E i \in RunnerIds :
        /\ pc[i] = "loop"
        /\ \E task \in NextPendingIn(tasks, current_run_id[i]) :
              /\ task # None
              /\ cur' = [cur EXCEPT ![i] =
                            [task |-> task,
                             model |-> AvailableModel(models, rate_limit_until, now),
                             result |-> NoneStr]]
        /\ pc' = [pc EXCEPT ![i] = "picked"]
        /\ UNCHANGED <<tasks, runs, current_run_id, run_id, dispatched, ret>>
        /\ TwoOnly

\* run(): get_next_pending_task() returned None: break
two_queue_empty ==
    \E i \in RunnerIds :
        /\ pc[i] = "loop"
        /\ None \in NextPendingIn(tasks, current_run_id[i])
        /\ pc' = [pc EXCEPT ![i] = "report"]
        /\ UNCHANGED <<tasks, runs, current_run_id, run_id, cur, dispatched, ret>>
        /\ TwoOnly

\* _execute_task: mark_in_progress(task.id, model_key)
two_mark_in_progress ==
    \E i \in RunnerIds :
        /\ pc[i] = "picked"
        /\ tasks' = MarkInProgressRow(tasks, cur[i].task, get_model_key(models, cur[i].model))
        /\ dispatched' = [dispatched EXCEPT ![cur[i].task] = @ \cup {i}]
        /\ pc' = [pc EXCEPT ![i] = "calling"]
        /\ UNCHANGED <<runs, current_run_id, run_id, cur, ret>>
        /\ TwoOnly

\* _execute_task: the agent call returned, the try block or its handler ends
\* with mark_completed or mark_failed
two_task_done ==
    \E i \in RunnerIds, res \in TwoAgentResults :
        LET outcome == TryBlock(res, cur[i].task, "none")
        IN  /\ pc[i] = "calling"
            /\ tasks' = IF outcome.exc = NoneStr
                        THEN MarkCompletedRow(tasks, cur[i].task, TOKENS_PER_TASK, outcome.result)
                        ELSE MarkFailedRow(tasks, cur[i].task, FailureText(outcome))
            /\ cur' = [cur EXCEPT ![i].result = ResultLabel(res)]
            /\ pc' = [pc EXCEPT ![i] = "loop"]
            /\ UNCHANGED <<runs, current_run_id, run_id, dispatched, ret>>
            /\ TwoOnly

\* _generate_report: run() returns the report built from get_statistics()
two_generate_report ==
    \E i \in RunnerIds :
        /\ pc[i] = "report"
        /\ ret' = [op |-> "run", arg |-> i, val |-> StatisticsOf(tasks, current_run_id[i])]
        /\ pc' = [pc EXCEPT ![i] = "done"]
        /\ UNCHANGED <<tasks, runs, current_run_id, run_id, cur, dispatched>>
        /\ TwoOnly

TwoNext ==
    \/ two_create_run
    \/ two_save_task
    \/ two_enter_loop
    \/ two_dequeue
    \/ two_queue_empty
    \/ two_mark_in_progress
    \/ two_task_done
    \/ two_generate_report

TwoSpec == TwoInit /\ [][TwoNext]_vars

(***************************************************************************)
(* NightshiftRunner.run() while a holder of the runner (server.py keeps it *)
(* in _current_runner) marks models of runner.model_manager rate limited:  *)
(* the iterations without an available model (specification QuotaSpec).    *)
(* The store's writes succeed, at most one agent call deviates from the   *)
(* nominal answer, and nobody calls stop().                                *)
(***************************************************************************)

\* retry_after_seconds passed to mark_rate_limited: a quarter of an hour, or
\* the default
QuotaRetryAfterSeconds == {TickStep \div 2, retry_after_default}

QuotaInit ==
    /\ \E f \in StoreFlags : config = [flags |-> f, projects |-> <<"p1">>]
    /\ tasks = <<>>
    /\ runs = <<>>
    /\ dispatched = <<>>
    /\ history = EmptyHistory
    /\ findings = <<>>
    /\ current_run_id = None
    /\ ret = NoRet
    /\ calls = 0
    /\ models = DefaultModels
    /\ rate_limit_until = EmptyDict
    /\ last_quota_check = 0
    /\ now = ClockStart
    /\ pc = "idle"
    /\ run_id = None
    /\ start_time = 0
    /\ stop_requested = FALSE
    /\ cur = NoCur
    /\ faults = MaxFaults - 1
    /\ end_reason = NoneStr
    /\ run_status = "idle"

\* runner.model_manager.mark_rate_limited(model, retry_after_seconds) called
\* from outside the loop, for a model that has no cooldown entry
quota_mark_rate_limited ==
    \E m \in ModelIds, retry \in QuotaRetryAfterSeconds :
        /\ pc \in {"idle", "loop", "calling"}
        /\ get_model_key(models, m) \notin DOMAIN rate_limit_until
        /\ rate_limit_until' = WithCooldown(models, rate_limit_until, now, m, retry)
        /\ UNCHANGED <<tasks, runs, findings, current_run_id, config, history, ret, calls,
                       models, last_quota_check, now, pc, run_id, start_time, stop_requested,
                       cur, dispatched, faults, end_reason>>
        /\ UNCHANGED run_status

QuotaNext ==
    \/ runner_start
    \/ runner_duration_exceeded
    \/ runner_queue_empty
    \/ runner_dispatch
    \/ runner_task_completed
    \/ runner_task_failed
    \/ runner_generate_report
    \/ runner_tick
    \/ quota_mark_rate_limited

QuotaSpec == QuotaInit /\ [][QuotaNext]_vars

(***************************************************************************)
(* The HTTP control surface (server.py, specification ServerSpec): the     *)
(* handlers of /start and /stop and the threads they start.  Every         *)
(* accepted /start builds a runner and a thread; pc, run_id,               *)
(* current_run_id and stop_requested hold one value per runner, in the     *)
(* order of creation, so _current_runner is the last one.  A thread is     *)
(* followed through _run_in_thread; of runner.run() the specification      *)
(* keeps the setup at its begin and the state of the tasks at its return   *)
(* (the loop itself is RunnerSpec's): without stop() all tasks of the run  *)
(* are completed, after stop() those not yet started stay pending.         *)
(***************************************************************************)

\* get_config(request.projects, ...): the default categories, one project
ServerConfig ==
    [flags |-> [enable_codebase_audit |-> TRUE,
                enable_enhancement_recommendations |-> TRUE,
                enable_tool_stack_research |-> TRUE],
     projects |-> <<"p1">>]

\* module globals of server.py at import: no runner, no thread, status idle
ServerInit ==
    /\ tasks = <<>>
    /\ runs = <<>>
    /\ findings = <<>>
    /\ history = EmptyHistory
    /\ config = ServerConfig
    /\ pc = <<>>
    /\ run_id = <<>>
    /\ current_run_id = <<>>
    /\ stop_requested = <<>>
    /\ run_status = "idle"
    /\ ret = NoRet
    /\ calls = 0
    /\ MgrIdle
    /\ now = ClockStart
    /\ start_time = 0
    /\ cur = NoCur
    /\ dispatched = <<>>
    /\ faults = 0
    /\ end_reason = NoneStr

\* what no handler and no thread of the server changes
ServerOnly ==
    UNCHANGED <<findings, config, history, calls, models, rate_limit_until, last_quota_check,
                now, start_time, cur, dispatched, faults, end_reason>>

\* the threads started by /start whose _run_in_thread has not returned
LiveThreads == {i \in DOMAIN pc : pc[i] # "finished"}

\* POST /start while the status is not "running": a runner is built, the
\* status becomes "starting" and the thread is started
srv_start ==
    /\ run_status # "running"
    /\ Len(pc) < MaxStarts
    /\ pc' = Append(pc, "started")
    /\ run_id' = Append(run_id, None)
    /\ current_run_id' = Append(current_run_id, None)
    /\ stop_requested' = Append(stop_requested, FALSE)
    /\ run_status' = "starting"
    /\ ret' = [op |-> "start", arg |-> None, val |-> 200]
    /\ UNCHANGED <<tasks, runs>>
    /\ ServerOnly

\* POST /start while the status is "running": HTTP 400
srv_start_rejected ==
    /\ run_status = "running"
    /\ ret' = [op |-> "start", arg |-> None, val |-> 400]
    /\ UNCHANGED <<tasks, runs, pc, run_id, current_run_id, stop_requested, run_status>>
    /\ ServerOnly

\* POST /stop with a runner and the status "running": _current_runner.stop()
\* and the status becomes "stopping"
srv_stop ==
    /\ pc # <<>>
    /\ run_status = "running"
    /\ stop_requested' = [stop_requested EXCEPT ![Len(pc)] = TRUE]
    /\ run_status' = "stopping"
    /\ ret' = [op |-> "stop", arg |-> None, val |-> 200]
    /\ UNCHANGED <<tasks, runs, pc, run_id, current_run_id>>
    /\ ServerOnly

\* POST /stop otherwise: HTTP 400
srv_stop_rejected ==
    /\ pc = <<>> \/ run_status # "running"
    /\ ret' = [op |-> "stop", arg |-> None, val |-> 400]
    /\ UNCHANGED <<tasks, runs, pc, run_id, current_run_id, stop_requested, run_status>>
    /\ ServerOnly

\* setup_tasks of runner i: create_run, then the tasks of every project
SetupTasksOf(i) ==
    /\ runs' = Append(runs, RunRow(now))
    /\ run_id' = [run_id EXCEPT ![i] = Len(runs) + 1]
    /\ current_run_id' = [current_run_id EXCEPT ![i] = Len(runs) + 1]
    /\ tasks' = tasks \o SetupTasks(config.flags, config.projects, Len(runs) + 1)

\* _run_in_thread: the runner has no run id yet, runner.setup_tasks()
srv_thread_setup ==
    \E i \in DOMAIN pc :
        /\ pc[i] = "started"
        /\ SetupTasksOf(i)
        /\ pc' = [pc EXCEPT ![i] = "set_up"]
        /\ UNCHANGED <<stop_requested, run_status, ret>>
        /\ ServerOnly

\* _run_in_thread: _run_status["status"] = "running"
srv_thread_running ==
    \E i \in DOMAIN pc :
        /\ pc[i] = "set_up"
        /\ run_status' = "running"
        /\ pc' = [pc EXCEPT ![i] = "announced"]
        /\ UNCHANGED <<tasks, runs, run_id, current_run_id, stop_requested, ret>>
        /\ ServerOnly

\* _run_in_thread: runner.run() begins, which calls setup_tasks once more
srv_thread_run_begins ==
    \E i \in DOMAIN pc :
        /\ pc[i] = "announced"
        /\ SetupTasksOf(i)
        /\ pc' = [pc EXCEPT ![i] = "in_run"]
        /\ UNCHANGED <<stop_requested, run_status, ret>>
        /\ ServerOnly

\* _run_in_thread: runner.run() returned its report, the status becomes
\* "completed"
srv_thread_run_returns ==
    \E i \in DOMAIN pc :
        /\ pc[i] = "in_run"
        /\ tasks' = IF stop_requested[i] THEN tasks
                    ELSE [t \in DOMAIN tasks |->
                            IF tasks[t].run_id = run_id[i]
                            THEN MarkCompletedRow(
                                    MarkInProgressRow(tasks, t, get_model_key(DefaultModels, 1)),
                                    t, TOKENS_PER_TASK, "[]")[t]
                            ELSE tasks[t]]
        /\ run_status' = "completed"
        /\ pc' = [pc EXCEPT ![i] = "finished"]
        /\ UNCHANGED <<runs, run_id, current_run_id, stop_requested, ret>>
        /\ ServerOnly

\* _run_in_thread: runner.run() raised, the status becomes "failed"
srv_thread_run_raises ==
    \E i \in DOMAIN pc :
        /\ pc[i] = "in_run"
        /\ run_status' = "failed"
        /\ pc' = [pc EXCEPT ![i] = "finished"]
        /\ UNCHANGED <<tasks, runs, run_id, current_run_id, stop_requested, ret>>
        /\ ServerOnly

ServerNext ==
    \/ srv_start
    \/ srv_start_rejected
    \/ srv_stop
    \/ srv_stop_rejected
    \/ srv_thread_setup
    \/ srv_thread_running
    \/ srv_thread_run_begins
    \/ srv_thread_run_returns
    \/ srv_thread_run_raises

ServerSpec == ServerInit /\ [][ServerNext]_vars

(***************************************************************************)
(* run() on a store whose runs a client finalizes (specification           *)
(* TallySpec): the runner of RunnerSpec with the research category         *)
(* enabled alone and one project, on the store of an earlier session, and  *)
(* a client that calls finalize_run through the runner's queue at any      *)
(* moment, also while a task is in progress.  The environment has one      *)
(* fault to spend.                                                         *)
(***************************************************************************)
TallyInit ==
    /\ \E f \in StoreFlags :
          /\ config = [flags |-> f, projects |-> <<"p1">>]
          /\ tasks = PriorSessionTasks(f)
    /\ runs = <<RunRow(ClockStart)>>
    /\ dispatched = [t \in DOMAIN tasks |-> 0]
    /\ history = EmptyHistory
    /\ findings = <<>>
    /\ current_run_id = None
    /\ ret = NoRet
    /\ calls = 0
    /\ models = DefaultModels
    /\ rate_limit_until = EmptyDict
    /\ last_quota_check = 0
    /\ now = ClockStart
    /\ pc = "idle"
    /\ run_id = None
    /\ start_time = 0
    /\ stop_requested = FALSE
    /\ cur = NoCur
    /\ faults = MaxFaults - 1
    /\ end_reason = NoneStr
    /\ run_status = "idle"

TallyNext ==
    \/ runner_start
    \/ runner_sees_stop
    \/ runner_duration_exceeded
    \/ runner_queue_empty
    \/ runner_dispatch
    \/ runner_task_completed
    \/ runner_task_failed
    \/ runner_generate_report
    \/ runner_stop
    \/ finalize_run

TallySpec == TallyInit /\ [][TallyNext]_vars

(***************************************************************************)
(* SmartPrioritizer (prioritization.py), specification PrioSpec.  tasks    *)
(* holds the list handed to prioritize_tasks, config the prioritizer's     *)
(* mode and token_budget, ret the list returned, as the positions of the   *)
(* returned task objects in the input list.  The scores are kept tenfold   *)
(* (the weights have one decimal), which makes them integers; on the 44    *)
(* products of the tables the float comparison of the code orders the      *)
(* scores as the exact values do.                                          *)
(***************************************************************************)
TaskKinds ==
    {audit_tasks[i][1] : i \in DOMAIN audit_tasks}
        \cup {enhancement_tasks[i][1] : i \in DOMAIN enhancement_tasks}
        \cup {research_tasks[i][1] : i \in DOMAIN research_tasks}

TOKEN_COST_ESTIMATES ==
    [k \in TaskKinds |->
        CASE k = "file_structure_analysis" -> 2000
          [] k = "dependency_audit" -> 3000
          [] k = "code_pattern_analysis" -> 8000
          [] k = "tech_debt_scan" -> 6000
          [] k = "security_review" -> 10000
          [] k = "architecture_review" -> 12000
          [] k = "best_practices_check" -> 5000
          [] k = "performance_analysis" -> 7000
          [] k = "dependency_updates" -> 4000
          [] k = "sota_alternatives" -> 6000
          [] k = "integration_opportunities" -> 5000]

TASK_IMPACT_SCORES ==
    [k \in TaskKinds |->
        CASE k = "security_review" -> 100
          [] k = "dependency_audit" -> 90
          [] k = "architecture_review" -> 85
          [] k = "tech_debt_scan" -> 75
          [] k = "code_pattern_analysis" -> 70
          [] k = "performance_analysis" -> 65
          [] k = "best_practices_check" -> 60
          [] k = "dependency_updates" -> 55
          [] k = "sota_alternatives" -> 50
          [] k = "file_structure_analysis" -> 40
          [] k = "integration_opportunities" -> 35]

\* PRIORITY_MODES[mode].weights, tenfold
PRIORITY_MODES ==
    [security_first |-> [security |-> 20, dependencies |-> 15, architecture |-> 10, other |-> 5],
     balanced       |-> [security |-> 12, dependencies |-> 11, architecture |-> 10, other |-> 10],
     research_heavy |-> [security |-> 8,  dependencies |-> 10, architecture |-> 10, other |-> 15],
     quick_scan     |-> [security |-> 15, dependencies |-> 12, architecture |-> 5,  other |-> 3]]

get_task_category(task_type) ==
    IF task_type = "security_review" THEN "security"
    ELSE IF task_type \in {"dependency_audit", "dependency_updates"} THEN "dependencies"
    ELSE IF task_type \in {"architecture_review", "code_pattern_analysis"} THEN "architecture"
    ELSE "other"

\* PRIORITY_MODES.get(self.mode, PRIORITY_MODES["balanced"])
priority_mode(mode) ==
    IF mode \in DOMAIN PRIORITY_MODES THEN PRIORITY_MODES[mode] ELSE PRIORITY_MODES["balanced"]

\* final_score = base_score * weight (tenfold)
final_score(mode, task_type) ==
    TASK_IMPACT_SCORES[task_type] * priority_mode(mode)[get_task_category(task_type)]

\* list.sort(key, reverse=True) is stable: an element is placed behind the
\* elements before it in the list whose key is not smaller
RECURSIVE SortedByScore(_, _, _)
SortedByScore(mode, tbl, n) ==
    IF n = 0 THEN <<>>
    ELSE LET before == SortedByScore(mode, tbl, n - 1)
             mine == final_score(mode, tbl[n].task_type)
             keep == {i \in 0..Len(before) :
                        \A j \in 1..i : final_score(mode, tbl[before[j]].task_type) >= mine}
             at == CHOOSE i \in keep : \A j \in keep : j <= i
         IN  SubSeq(before, 1, at) \o <<n>> \o SubSeq(before, at + 1, Len(before))

\* a sort that places an element before the elements of equal key
RECURSIVE scored_tasks_Unstable(_, _)
scored_tasks_Unstable(mode, tbl) ==
    LET n == Len(tbl)
    IN  IF n = 0 THEN <<>>
        ELSE LET before == scored_tasks_Unstable(mode, SubSeq(tbl, 1, n - 1))
                 mine == final_score(mode, tbl[n].task_type)
                 keep == {i \in 0..Len(before) :
                            \A j \in 1..i : final_score(mode, tbl[before[j]].task_type) > mine}
                 at == CHOOSE i \in keep : \A j \in keep : j <= i
             IN  SubSeq(before, 1, at) \o <<n>> \o SubSeq(before, at + 1, Len(before))

\* scored_tasks after the sort, as positions in the input list
scored_tasks(mode, tbl) == SortedByScore(mode, tbl, Len(tbl))

\* Optional[int] token_budget and its truth value in "if self.token_budget:"
NoBudget == [given |-> FALSE, value |-> 0]
Budget(b) == [given |-> TRUE, value |-> b]
Truthy(token_budget) == token_budget.given /\ token_budget.value # 0

\* the loop over scored_tasks: a task is selected when remaining_budget >= cost
RECURSIVE GreedySelect(_, _, _, _)
GreedySelect(tbl, order, k, remaining_budget) ==
    IF k > Len(order) THEN <<>>
    ELSE LET cost == TOKEN_COST_ESTIMATES[tbl[order[k]].task_type]
         IN  IF remaining_budget >= cost
             THEN <<order[k]>> \o GreedySelect(tbl, order, k + 1, remaining_budget - cost)
             ELSE GreedySelect(tbl, order, k + 1, remaining_budget)

\* SmartPrioritizer.prioritize_tasks
PrioritizeTasks(mode, token_budget, tbl) ==
    IF Truthy(token_budget)
    THEN GreedySelect(tbl, scored_tasks(mode, tbl), 1, token_budget.value)
    ELSE scored_tasks(mode, tbl)

\* SmartPrioritizer.estimate_total_tokens of the tasks at the positions idxs
RECURSIVE estimate_total_tokens(_, _)
estimate_total_tokens(tbl, idxs) ==
    IF idxs = <<>> THEN 0
    ELSE TOKEN_COST_ESTIMATES[tbl[Head(idxs)].task_type] + estimate_total_tokens(tbl, Tail(idxs))

\* the inputs: lists of up to MaxPrioTasks pending tasks of one run, any
\* kinds; the four modes and a name that is none of them; no budget and
\* budgets around the cost estimates
PrioTaskLists ==
    UNION {[1..n -> TaskKinds] : n \in 0..MaxPrioTasks}
PrioModes == DOMAIN PRIORITY_MODES \cup {"thorough"}
TokenBudgets == {NoBudget, Budget(0), Budget(2000), Budget(12000), Budget(15000)}

PrioInit ==
    /\ \E kinds \in PrioTaskLists :
          tasks = [i \in DOMAIN kinds |-> ResearchTask(kinds[i], "p1", 1, i)]
    /\ \E mode \in PrioModes, token_budget \in TokenBudgets :
          config = [mode |-> mode, token_budget |-> token_budget]
    /\ runs = <<RunRow(ClockStart)>>
    /\ findings = <<>>
    /\ history = EmptyHistory
    /\ current_run_id = 1
    /\ ret = NoRet
    /\ calls = 0
    /\ MgrIdle
    /\ RunnerIdle
    /\ now = ClockStart

\* SmartPrioritizer(mode, token_budget).prioritize_tasks(tasks)
prioritize_tasks ==
    /\ calls = 0
    /\ calls' = 1
    /\ ret' = [op |-> "prioritize_tasks", arg |-> config,
               val |-> PrioritizeTasks(config.mode, config.token_budget, tasks)]
    /\ UNCHANGED <<tasks, runs, findings, current_run_id, config, history>>
    /\ QueueOnly

PrioNext == prioritize_tasks

PrioSpec == PrioInit /\ [][PrioNext]_vars

(***************************************************************************)
(* Properties of the TaskQueue (specification Spec)                        *)
(***************************************************************************)

\* C1: get_next_pending_task() with run_id omitted returns none or a pending
\* task whose run_id is the queue's current run, also when the queue
\* instance has no current run.
C1_ImplicitDequeueStaysInCurrentRun ==
    (ret.op = "get_next_pending_task" /\ ret.arg = None /\ ret.val # None)
        => /\ tasks[ret.val].status = PENDING
           /\ tasks[ret.val].run_id = current_run_id

\* per-status counts of run r, counted row by row
RECURSIVE CountRows(_, _, _)
CountRows(n, r, status) ==
    IF n = 0 THEN 0
    ELSE CountRows(n - 1, r, status)
         + (IF tasks[n].run_id = r /\ tasks[n].status = status THEN 1 ELSE 0)

CountsOfRun(r) ==
    [s \in {PENDING, IN_PROGRESS, COMPLETED, FAILED, SKIPPED} |-> CountRows(Len(tasks), r, s)]

StatsMatchRun(val, r) ==
    /\ val.pending = CountsOfRun(r)[PENDING]
    /\ val.in_progress = CountsOfRun(r)[IN_PROGRESS]
    /\ val.completed = CountsOfRun(r)[COMPLETED]
    /\ val.failed = CountsOfRun(r)[FAILED]
    /\ val.skipped = CountsOfRun(r)[SKIPPED]

C2_ReadsAreRunScoped ==
    /\ (ret.op = "get_statistics" /\ ret.arg = None /\ current_run_id # None)
          => StatsMatchRun(ret.val, current_run_id)
    /\ (ret.op = "get_pending_count" /\ ret.arg = None /\ current_run_id # None)
          => ret.val = CountsOfRun(current_run_id)[PENDING]
    /\ (ret.op = "get_statistics" /\ ret.arg # None)
          => StatsMatchRun(ret.val, ret.arg)

C2_TransitionKeepsOtherRuns ==
    \A t \in TaskIds :
        (Len(tasks') = Len(tasks) /\ tasks'[t] # tasks[t])
            => \A r \in RunIds \ {tasks[t].run_id} :
                  /\ StatisticsOf(tasks', r) = StatisticsOf(tasks, r)
                  /\ Cardinality(RowsWhere(tasks', PENDING, r))
                        = Cardinality(RowsWhere(tasks, PENDING, r))

\* C2: with runs R1 then R2 created in sequence, get_statistics() and
\* get_pending_count() without run_id count only the tasks of the current run
\* R2, get_statistics(run_id=R1) counts only R1's tasks, and a transition on
\* a task of one run leaves the counts of every other run unchanged.
C2_RunScopeIsolation ==
    /\ []C2_ReadsAreRunScoped
    /\ [][C2_TransitionKeepsOtherRuns]_vars

\* C2 witness: R2 is current, R1 holds a completed task, and get_statistics()
\* has just reported R2's counts with completed = 0.
C2_Witness ==
    /\ Len(runs) = 2 /\ current_run_id = 2
    /\ \E t \in TaskIds : tasks[t].run_id = 1 /\ tasks[t].status = COMPLETED
    /\ \E t \in TaskIds : tasks[t].run_id = 2
    /\ ret.op = "get_statistics" /\ ret.arg = None
    /\ ret.val.completed = 0 /\ ret.val.pending > 0

\* C4: under any sequence of mark_in_progress / mark_completed / mark_failed
\* calls a task whose status is completed or failed never changes status
\* again, and no task returns to pending (status moves only
\* pending -> in_progress -> completed | failed).
C4_TerminalStatusIsFinal ==
    [][\A t \in TaskIds :
          /\ tasks[t].status \in {COMPLETED, FAILED} => tasks'[t].status = tasks[t].status
          /\ tasks[t].status # PENDING => tasks'[t].status # PENDING]_vars

\* C5: get_next_pending_task for a run returns none iff the run has no
\* pending task, and otherwise a pending task of that run whose priority is
\* less than or equal to that of every pending task of the run.
C5_DequeueIsMinPriorityPending ==
    (ret.op = "get_next_pending_task" /\ (ret.arg # None \/ current_run_id # None))
        => LET r == IF ret.arg # None THEN ret.arg ELSE current_run_id
               pend == {t \in TaskIds : tasks[t].run_id = r /\ tasks[t].status = PENDING}
           IN  /\ (ret.val = None) <=> (pend = {})
               /\ ret.val # None =>
                    /\ ret.val \in pend
                    /\ \A u \in pend : tasks[ret.val].priority <= tasks[u].priority

\* C5 witness: the returned task is not the lowest-priority row of its run
\* (that one is no longer pending) and a pending task of higher priority
\* value exists in the same run.
C5_Witness ==
    /\ ret.op = "get_next_pending_task" /\ ret.val # None
    /\ \E u \in TaskIds :
          /\ tasks[u].run_id = tasks[ret.val].run_id
          /\ tasks[u].status # PENDING
          /\ tasks[u].priority < tasks[ret.val].priority
    /\ \E u \in TaskIds :
          /\ tasks[u].run_id = tasks[ret.val].run_id
          /\ tasks[u].status = PENDING
          /\ tasks[u].priority > tasks[ret.val].priority

(***************************************************************************)
(* Properties of the NightshiftRunner (specification RunnerSpec)           *)
(***************************************************************************)

\* the tasks of the runner's run that are in progress
InProgressOfRun ==
    {t \in TaskIds : tasks[t].run_id = run_id /\ tasks[t].status = IN_PROGRESS}

\* C3: within one Runner at most one task of its run is in_progress at any
\* time, and whenever the runner is at the head of its loop (where it
\* dequeues) the task it dispatched before is completed or failed.
C3_OneTaskAtATime ==
    /\ Cardinality(InProgressOfRun) <= 1
    /\ pc = "calling" => InProgressOfRun = {cur.task}
    /\ (pc = "loop" /\ cur.task # None) => tasks[cur.task].status \in {COMPLETED, FAILED}

\* C3 witness: a task is in flight after one task of the run completed and
\* another one failed.
C3_Witness ==
    /\ pc = "calling"
    /\ \E t, u \in TaskIds :
          /\ tasks[t].run_id = run_id /\ tasks[t].status = COMPLETED
          /\ tasks[u].run_id = run_id /\ tasks[u].status = FAILED
    /\ tasks[cur.task].status = IN_PROGRESS

\* C6: whatever fault occurs while one task is executed (agent failure or
\* timeout, parse or persist error, error in a status write) Runner.run does
\* not end with an exception: the task ends failed with its error text
\* recorded and the loop continues.
C6_RunNeverRaises ==
    /\ pc # "raised"
    /\ (pc = "loop" /\ cur.task # None /\ tasks[cur.task].status # COMPLETED)
          => (tasks[cur.task].status = FAILED /\ tasks[cur.task].error # NoneStr)

\* C7: when the agent call made for a task with model M reports a rate
\* limit, M is on cooldown afterwards (get_available_model does not return
\* M), the task is failed with reason "Rate limited", and the loop continues.
C7_RateLimitCoolsModelDown ==
    (pc = "loop" /\ cur.result = "429 rate limit exceeded") =>
        /\ tasks[cur.task].status = FAILED
        /\ tasks[cur.task].error = "Rate limited"
        /\ models[cur.model].key \in DOMAIN rate_limit_until
        /\ AvailableModel(models, rate_limit_until, now) # cur.model

C8_AtMostOneDispatch == \A t \in TaskIds : dispatched[t] <= 1

C8_FailedStaysOut ==
    \A t \in TaskIds :
        tasks[t].status = FAILED =>
            /\ tasks'[t].status = FAILED
            /\ dispatched'[t] = dispatched[t]
            /\ (cur'.task = t => cur.task = t)

\* C8: a task marked failed (also after a rate limit signal) is never
\* dequeued or dispatched again in the same run; every task is dispatched to
\* the agent at most once, even when another model is available.
C8_NoRetryInSameRun ==
    /\ []C8_AtMostOneDispatch
    /\ [][C8_FailedStaysOut]_vars

\* C8 witness: a task failed on a rate limit signal, a model is available,
\* and the runner has gone on to dispatch another task.
C8_Witness ==
    /\ pc = "calling"
    /\ \E t \in TaskIds \ {cur.task} :
          /\ tasks[t].run_id = run_id
          /\ tasks[t].status = FAILED
          /\ tasks[t].error = "429 rate limit exceeded"
          /\ dispatched[t] = 1
    /\ dispatched[cur.task] = 1
    /\ AvailableModel(models, rate_limit_until, now) # None

(***************************************************************************)
(* Properties of the ModelFailoverManager (specification MgrSpec)          *)
(***************************************************************************)

\* the models whose cooldown-until is unset or in the past, before the call
EligibleModels ==
    {m \in ModelIds :
        \/ models[m].key \notin DOMAIN rate_limit_until
        \/ rate_limit_until[models[m].key] < now}

\* the models whose cooldown has not yet passed
CoolingModels ==
    {m \in ModelIds :
        /\ models[m].key \in DOMAIN rate_limit_until
        /\ rate_limit_until[models[m].key] >= now}

C9_ReturnsBestEligible ==
    ret'.op = "get_available_model" =>
        /\ (ret'.val = None) <=> (EligibleModels = {})
        /\ (ret'.val = None) <=> (CoolingModels = ModelIds)
        /\ ret'.val # None =>
              /\ ret'.val \in EligibleModels
              /\ \A m \in EligibleModels : models[ret'.val].priority <= models[m].priority

C9_AllExhaustedAgrees ==
    ret'.op = "all_exhausted" => ((ret'.val = 1) <=> (EligibleModels = {}))

\* C9: get_available_model returns the model of smallest priority number
\* among the configured models whose cooldown-until is unset or in the past,
\* and none iff every configured model has a cooldown-until that has not yet
\* passed (so also when no model is configured); all_exhausted agrees.
C9_GetAvailableModel ==
    [][C9_ReturnsBestEligible /\ C9_AllExhaustedAgrees]_vars

\* C9 witness: the best-priority model is cooling (at the very instant its
\* cooldown ends), another one is eligible and has just been returned.
C9_Witness ==
    /\ ret.op = "get_available_model" /\ ret.val # None
    /\ \E m \in ModelIds :
          /\ models[m].priority < models[ret.val].priority
          /\ models[m].key \in DOMAIN rate_limit_until
          /\ rate_limit_until[models[m].key] = now

\* a model whose priority number is strictly below every other model's
StrictlyBest(m) == \A o \in ModelIds \ {m} : models[m].priority < models[o].priority

C10_CoolingNeverReturned ==
    ret.op = "get_available_model" =>
        /\ ret.val \notin CoolingModels
        /\ \A m \in ModelIds :
              (StrictlyBest(m) /\ m \notin CoolingModels) => ret.val = m
        /\ \A m, o \in ModelIds :
              (StrictlyBest(m) /\ m \in CoolingModels /\ o # m /\ o \notin CoolingModels)
                  => ret.val = o

C10_MarkAvailableEffect ==
    ret'.op = "mark_available" =>
        LET m == ret'.arg
            key == models[m].key
        IN  /\ key \notin DOMAIN rate_limit_until'
            /\ IsAvailable(models, rate_limit_until', now', m)
            /\ StrictlyBest(m) => AvailableModel(models, rate_limit_until', now') = m
            /\ \A k \in ModelKeys \ {key} :
                  /\ (k \in DOMAIN rate_limit_until') <=> (k \in DOMAIN rate_limit_until)
                  /\ k \in DOMAIN rate_limit_until => rate_limit_until'[k] = rate_limit_until[k]

\* C10: while p1 (priority 1) is on cooldown get_available_model returns p2
\* and never p1; mark_available(m) makes m eligible at once whatever cooldown
\* remained (so p1 is returned again) and changes no other model's cooldown.
C10_Failover ==
    /\ []C10_CoolingNeverReturned
    /\ [][C10_MarkAvailableEffect]_vars

\* C10 witness: p1 is on cooldown with time remaining and get_available_model
\* has just returned the other model
C10_Witness ==
    /\ ret.op = "get_available_model"
    /\ \E m \in ModelIds : StrictlyBest(m) /\ m \in CoolingModels /\ rate_limit_until[models[m].key] > now
    /\ ret.val # None

(***************************************************************************)
(* Properties of task generation (specification GenSpec)                   *)
(***************************************************************************)

\* a step of GenSpec that is a call of generate_tasks_for_project
GenerateStep ==
    /\ calls' = calls + 1
    /\ ret'.op = "generate_tasks_for_project"

\* the rows a step appended to the tasks table
AppendedRows == SubSeq(tasks', Len(tasks) + 1, Len(tasks'))

StoreUnchanged == UNCHANGED <<tasks, runs, findings, current_run_id>>

\* C11: generate_tasks_for_project on a queue without a current run fails
\* with an error, creates no task and leaves the store unchanged.
C11_GenerateWithoutRunFails ==
    [][(GenerateStep /\ current_run_id = None)
          => (ret'.val = "RuntimeError" /\ StoreUnchanged)]_vars

\* C11 witness: the store holds tasks of an earlier run, the queue has no
\* current run, and generate_tasks_for_project has just raised.
C11_Witness ==
    /\ ret.op = "generate_tasks_for_project" /\ ret.val = "RuntimeError"
    /\ current_run_id = None
    /\ Len(runs) >= 1 /\ Len(tasks) >= 1

KindOrder ==
    <<"file_structure_analysis", "dependency_audit", "code_pattern_analysis",
      "tech_debt_scan", "security_review", "architecture_review",
      "best_practices_check", "performance_analysis", "dependency_updates",
      "sota_alternatives", "integration_opportunities">>

AllEnabled ==
    /\ config.flags.enable_codebase_audit
    /\ config.flags.enable_enhancement_recommendations
    /\ config.flags.enable_tool_stack_research

\* C12: with all three categories enabled, generate_tasks_for_project creates
\* exactly 11 tasks for the project, the i-th of kind KindOrder[i] with
\* priority i, all pending.
C12_ElevenTasksInKindOrder ==
    [][(GenerateStep /\ current_run_id # None /\ AllEnabled)
          => /\ Len(tasks') = Len(tasks) + 11
             /\ \A i \in 1..11 :
                   /\ i \in DOMAIN AppendedRows
                   /\ AppendedRows[i].task_type = KindOrder[i]
                   /\ AppendedRows[i].priority = i
                   /\ AppendedRows[i].status = PENDING
                   /\ AppendedRows[i].project_name = ret'.arg]_vars

\* C12 witness: all categories are enabled and one call has created the 11 tasks.
C12_Witness ==
    /\ AllEnabled
    /\ ret.op = "generate_tasks_for_project" /\ ret.val = "returned"
    /\ Len(tasks) = 11

KindsOf(lo, hi) == {KindOrder[i] : i \in lo..hi}

EnabledKinds ==
    (IF config.flags.enable_codebase_audit THEN KindsOf(1, 5) ELSE {})
    \cup (IF config.flags.enable_enhancement_recommendations THEN KindsOf(6, 8) ELSE {})
    \cup (IF config.flags.enable_tool_stack_research THEN KindsOf(9, 11) ELSE {})

\* C13: for every combination of the category flags, generate_tasks_for_project
\* creates one task per kind of the enabled categories and none of a disabled
\* category, each pending and tagged with the current run id, and leaves the
\* rows of earlier runs as they were.
C13_EnabledKindsUnderCurrentRun ==
    [][(GenerateStep /\ current_run_id # None)
          => /\ {AppendedRows[i].task_type : i \in DOMAIN AppendedRows} = EnabledKinds
             /\ Len(AppendedRows) = Cardinality(EnabledKinds)
             /\ \A i \in DOMAIN AppendedRows :
                   /\ AppendedRows[i].status = PENDING
                   /\ AppendedRows[i].run_id = current_run_id
             /\ Len(tasks') >= Len(tasks)
             /\ SubSeq(tasks', 1, Len(tasks)) = tasks]_vars

\* C13 witness: a second run is current, the first run holds tasks, one
\* category is disabled, and the call has just added rows of the second run.
C13_Witness ==
    /\ ret.op = "generate_tasks_for_project" /\ ret.val = "returned"
    /\ current_run_id = 2
    /\ ~AllEnabled
    /\ \E t \in TaskIds : tasks[t].run_id = 1
    /\ \E t \in TaskIds : tasks[t].run_id = 2

(***************************************************************************)
(* Properties of the diff engine (specification DiffSpec)                  *)
(***************************************************************************)

SigSet(fs) == {_finding_signature(fs[i]) : i \in DOMAIN fs}

\* the diff val partitions the current findings current against the run record
\* baseline by signature
DiffAgainst(val, current, baseline) ==
    LET P == {baseline.finding_signatures[i] : i \in DOMAIN baseline.finding_signatures}
        C == SigSet(current)
    IN  /\ SigSet(val.new_findings) = C \ P
        /\ SigSet(val.persistent_findings) = C \cap P
        /\ SigSet(val.fixed_findings) = P \ C

RecordsOf(rid) == {i \in DOMAIN history.runs : history.runs[i].run_id = rid}

\* C15: compute_diff given a run's id takes as baseline the run recorded
\* immediately before that run, not the record of the run itself; without an
\* id it takes the latest recorded run.
C15_BaselineIsPrecedingRun ==
    (ret.op = "compute_diff") =>
        LET rid == ret.arg.compare_to_run_id
            current == ret.arg.current_findings
        IN  /\ (rid # None /\ RecordsOf(rid) # {} /\ 1 \notin RecordsOf(rid))
                  => \E i \in RecordsOf(rid) :
                        /\ \A j \in RecordsOf(rid) : i <= j
                        /\ DiffAgainst(ret.val, current, history.runs[i - 1])
            /\ (rid = None /\ history.runs # <<>>)
                  => DiffAgainst(ret.val, current, history.runs[Len(history.runs)])

\* C16: against a baseline run with signatures P, current findings with
\* signatures C give new = C \ P, persistent = C \cap P and fixed = P \ C,
\* each signature once; the three lists are pairwise disjoint by signature,
\* and equal signature sets give no new and no fixed finding.
C16_DiffPartitionsBySignature ==
    (ret.op = "compute_diff") =>
        LET rid == ret.arg.compare_to_run_id
            current == ret.arg.current_findings
            at == IF rid = None THEN {Len(history.runs)} \ {0}
                  ELSE {i \in RecordsOf(rid) : \A j \in RecordsOf(rid) : i <= j}
        IN  \A i \in at :
               LET P == {history.runs[i].finding_signatures[k] :
                            k \in DOMAIN history.runs[i].finding_signatures}
                   C == SigSet(current)
               IN  /\ DiffAgainst(ret.val, current, history.runs[i])
                   /\ Len(ret.val.new_findings) = Cardinality(C \ P)
                   /\ Len(ret.val.persistent_findings) = Cardinality(C \cap P)
                   /\ Len(ret.val.fixed_findings) = Cardinality(P \ C)
                   /\ SigSet(ret.val.new_findings) \cap SigSet(ret.val.persistent_findings) = {}
                   /\ SigSet(ret.val.new_findings) \cap SigSet(ret.val.fixed_findings) = {}
                   /\ SigSet(ret.val.persistent_findings) \cap SigSet(ret.val.fixed_findings) = {}
                   /\ (C = P => ret.val.new_findings = <<>> /\ ret.val.fixed_findings = <<>>)

\* C16 witness: a diff against a recorded run with a new, a persistent and a
\* fixed finding at once.
C16_Witness ==
    /\ ret.op = "compute_diff"
    /\ PreviousRun(history, ret.arg.compare_to_run_id) # None
    /\ ret.val.new_findings # <<>>
    /\ ret.val.persistent_findings # <<>>
    /\ ret.val.fixed_findings # <<>>

(***************************************************************************)
(* Properties of a run (specifications NominalSpec and RunnerSpec)         *)
(***************************************************************************)

\* no task of the runner's run has left status pending
NothingStarted ==
    \A t \in TaskIds : tasks[t].run_id = run_id => tasks[t].status = PENDING

\* C14: after setup_tasks with priority mode security_first, the first task
\* get_next_pending_task returns for the runner's run is the security-review
\* task, whenever the enabled task set contains it.
C14_SecurityReviewFirst ==
    (/\ pc = "loop"
     /\ NothingStarted
     /\ config.priority_mode = "security_first"
     /\ config.flags.enable_codebase_audit)
        => \A t \in NextPendingIn(tasks, run_id) :
              t # None /\ tasks[t].task_type = "security_review"

NumProjects == Len(config.projects)

\* the report of run(): counts and tokens of the runner's run
C17_ReportOfFullRun ==
    (pc = "done" /\ AllEnabled /\ end_reason \notin {"stop_requested", "duration_exceeded"})
        => /\ end_reason = "queue_empty"
           /\ ret.op = "run"
           /\ ret.val.completed = 11 * NumProjects
           /\ ret.val.failed = 0
           /\ ret.val.pending = 0
           /\ ret.val.in_progress = 0
           /\ ret.val.total_tokens = 11 * NumProjects * TOKENS_PER_TASK
           /\ findings = <<>>
           /\ \A t \in TaskIds : tasks[t].run_id = run_id => tasks[t].status = COMPLETED

\* what is left of the run: three steps per pending task of the run, and the
\* steps from the runner's position to the return of run()
PcRank == CASE pc = "done" -> 0 [] pc = "report" -> 1 [] pc = "loop" -> 2 [] OTHER -> 3
RunMeasure == 3 * Cardinality(RowsWhere(tasks, PENDING, run_id)) + PcRank

\* every step the runner takes by itself after setup brings the run closer to
\* its end
C17_RunAdvances ==
    (pc # "idle" /\ pc' # pc) => RunMeasure' < RunMeasure

\* C17: with all categories enabled, an always-available model and an agent
\* that always answers "[]", a run over N projects comes to its end (each
\* step of the runner brings run() closer to its return, no task is taken
\* twice), and unless it was stopped or ran out of time it ends with reason
\* queue empty, 11*N tasks completed, none failed, pending or in progress, no
\* finding, and total_tokens = 11*N times the per-task token cost.
C17_NominalRunCompletesAll ==
    /\ []C17_ReportOfFullRun
    /\ [][C17_RunAdvances]_vars

\* C17 as stated, with no condition on the time the agent calls take: every
\* run (that nobody stops) with all categories enabled, an always-available
\* model and an agent that always answers "[]" ends with reason queue empty
\* and 11*N completed tasks.
C17_AsStated ==
    (pc = "done" /\ AllEnabled /\ ~stop_requested)
        => /\ end_reason = "queue_empty"
           /\ ret.val.completed = 11 * NumProjects
           /\ ret.val.pending = 0

\* C17 witness: a run over two projects has returned its report with 22
\* completed tasks after the queue ran empty.
C17_Witness ==
    /\ pc = "done" /\ AllEnabled /\ end_reason = "queue_empty"
    /\ NumProjects = 2
    /\ ret.op = "run" /\ ret.val.completed = 22

\* the step in which the try block of _execute_task ran to its end
TaskCompletedStep ==
    /\ pc = "calling" /\ pc' = "loop"
    /\ tasks'[cur.task].status = COMPLETED

\* the findings saved by a step
SavedFindings == SubSeq(findings', Len(findings) + 1, Len(findings'))

\* outputs that are not a JSON list of records which all fit the finding schema
MalformedOutputs == {"non_json", "non_list", "bad_severity"}

\* C18: when the output of a successful agent call is non-JSON text, a JSON
\* value that is not a list, or a list with a record of invalid severity,
\* the parse result is exactly one finding, of severity info, that wraps the
\* raw output: never zero findings, never parsed findings next to the wrapper.
C18_MalformedOutputIsOneInfoFinding ==
    [][(TaskCompletedStep /\ cur'.result \in MalformedOutputs)
          => /\ Len(SavedFindings) = 1
             /\ SavedFindings[1].severity = "info"
             /\ SavedFindings[1].title = "Raw Analysis Output"
             /\ SavedFindings[1].task_id = cur.task]_vars

\* C19: a task whose agent call succeeded ends completed, never failed,
\* whatever the shape of the output (the writes of the store succeeding).
C19_SuccessfulCallCompletesTask ==
    [][(/\ pc = "calling" /\ pc' = "loop"
        /\ cur'.result \in AgentOutputs
        /\ tasks'[cur.task].error # "database is locked")
          => tasks'[cur.task].status = COMPLETED]_vars

BudgetReached == now - start_time >= MaxDurationHours * 3600

\* C20: in a loop iteration that begins with the elapsed time at or over the
\* configured maximum no task is marked in_progress: the loop ends, and the
\* tasks not yet started keep status pending until run() returns.
C20_NoDispatchAfterBudget ==
    [][/\ (pc = "loop" /\ BudgetReached)
            => (tasks' = tasks /\ cur' = cur /\ pc' \in {"loop", "report"})
       /\ (pc \in {"report", "done"} /\ end_reason = "duration_exceeded")
            => (tasks' = tasks /\ pc' \in {"report", "done"})]_vars

\* C20 witness: the loop has ended on the duration test while a task of the
\* run was still pending.
C20_Witness ==
    /\ pc = "report" /\ end_reason = "duration_exceeded"
    /\ BudgetReached
    /\ \E t \in TaskIds : tasks[t].run_id = run_id /\ tasks[t].status = PENDING
    /\ \E t \in TaskIds : tasks[t].run_id = run_id /\ tasks[t].status = COMPLETED

(***************************************************************************)
(* C21: stop() is cooperative.  The call of stop() itself only sets the    *)
(* flag: it changes no task and does not move the runner.  Once the flag   *)
(* is set, the agent call in flight returns into the loop with its task    *)
(* completed or failed, no task becomes in_progress, every pending task    *)
(* stays pending, and the loop test that follows leaves the loop with the  *)
(* reason "stop_requested" without touching the store.                     *)
(***************************************************************************)
C21_StopOnlySetsFlag ==
    stop_requested' # stop_requested =>
        /\ stop_requested'
        /\ UNCHANGED <<tasks, findings, runs, pc, cur, dispatched, end_reason>>

C21_AfterStop ==
    stop_requested =>
        /\ (pc = "calling" /\ pc' = "loop") =>
              tasks'[cur.task].status \in {COMPLETED, FAILED}
        /\ \A t \in DOMAIN tasks' :
              tasks'[t].status = IN_PROGRESS =>
                  t \in DOMAIN tasks /\ tasks[t].status = IN_PROGRESS
        /\ \A t \in DOMAIN tasks :
              tasks[t].status = PENDING => tasks'[t].status = PENDING
        /\ pc = "loop" =>
              /\ pc' = "report"
              /\ end_reason' = "stop_requested"
              /\ UNCHANGED <<tasks, findings, runs>>

\* C21: stop() lets the task in flight finish, starts no further task and
\* ends the loop at its next test, leaving the tasks not yet started pending
C21_StopIsCooperative == [][C21_StopOnlySetsFlag /\ C21_AfterStop]_vars

\* C21 witness: stop() was called, the task of the last iteration ended as
\* failed, the loop was left for that reason and a task of the run is still pending
C21_Witness ==
    /\ stop_requested
    /\ pc = "report"
    /\ end_reason = "stop_requested"
    /\ cur.task # None
    /\ tasks[cur.task].status = FAILED
    /\ \E t \in TaskIds : tasks[t].run_id = run_id /\ tasks[t].status = PENDING

(***************************************************************************)
(* C22: when run() has returned (the queue was empty, the duration was     *)
(* exceeded or stop() was called) the record of the run in table runs is   *)
(* finalized: completed_at is set and total_tasks, completed_tasks,        *)
(* failed_tasks and total_tokens are those of the run's statistics.        *)
(***************************************************************************)
RunRecordFinalized(r) ==
    LET stats == StatisticsOf(tasks, r)
    IN  /\ runs[r].completed_at # None
        /\ runs[r].total_tasks = stats.pending + stats.in_progress + stats.completed
                                   + stats.failed + stats.skipped
        /\ runs[r].completed_tasks = stats.completed
        /\ runs[r].failed_tasks = stats.failed
        /\ runs[r].total_tokens = stats.total_tokens

\* C22: the run's record is finalized once run() has returned its report
C22_ReturnedRunIsFinalized ==
    (pc = "done" /\ end_reason \in {"queue_empty", "duration_exceeded", "stop_requested"})
        => RunRecordFinalized(run_id)

(***************************************************************************)
(* C23: two runners with distinct run ids on one store.  Under every       *)
(* interleaving each runner dequeues and transitions only tasks of its own *)
(* run, no task is dispatched by both runners, and the pending count and   *)
(* the statistics a runner reads count only the tasks of its own run.      *)
(***************************************************************************)

\* the runner that takes the step
Stepper(i) == pc'[i] # pc[i] \/ cur'[i] # cur[i]

C23_OwnRunOnly ==
    /\ \A i \in RunnerIds :
          (cur'[i].task # cur[i].task) =>
              /\ tasks[cur'[i].task].run_id = run_id[i]
              /\ tasks[cur'[i].task].status = PENDING
    /\ \A t \in DOMAIN tasks :
          tasks'[t] # tasks[t] =>
              \E i \in RunnerIds : Stepper(i) /\ tasks[t].run_id = run_id[i]
    /\ (ret' # ret /\ ret'.op = "get_pending_count") =>
          ret'.val = CountsOfRun(run_id[ret'.arg])[PENDING]
    /\ (ret' # ret /\ ret'.op = "run") =>
          /\ StatsMatchRun(ret'.val, run_id[ret'.arg])
          /\ ret'.val.total_tokens =
                TOKENS_PER_TASK * CountsOfRun(run_id[ret'.arg])[COMPLETED]

C23_NoSharedTask ==
    /\ \A t \in DOMAIN tasks :
          /\ Cardinality(dispatched[t]) <= 1
          /\ \A i \in dispatched[t] : tasks[t].run_id = run_id[i]
    /\ (run_id[1] # None /\ run_id[2] # None) => run_id[1] # run_id[2]

\* C23: concurrent runners stay inside their own run
C23_ConcurrentRunsAreIsolated == []C23_NoSharedTask /\ [][C23_OwnRunOnly]_vars

\* C23 witness: both runners have an agent call in flight at once, each for
\* a task of its own run, and runner 1 has already finished another task
C23_Witness ==
    /\ pc[1] = "calling" /\ pc[2] = "calling"
    /\ cur[1].task # cur[2].task
    /\ tasks[cur[1].task].status = IN_PROGRESS
    /\ tasks[cur[2].task].status = IN_PROGRESS
    /\ \E t \in DOMAIN tasks : tasks[t].run_id = run_id[1] /\ tasks[t].status = COMPLETED
    /\ \E t \in DOMAIN tasks : tasks[t].run_id = run_id[2] /\ tasks[t].status = PENDING

(***************************************************************************)
(* C24: the agent call made for a task receives the task's project path    *)
(* as its project_path argument.                                           *)
(***************************************************************************)
\* C24: while the agent call of a task is in flight, the project_path
\* argument it was made with equals the project_path of the task
C24_AgentCallGetsProjectPath ==
    pc = "calling" =>
        CallAgentArguments(tasks[cur.task]).project_path = tasks[cur.task].project_path

(***************************************************************************)
(* C25: compute_diff on a history without any run (the history file is     *)
(* absent or holds no run) returns, with or without a run id to compare    *)
(* to, every current finding as new and nothing as fixed or persistent.    *)
(***************************************************************************)
\* C25: without a recorded run the diff is "all current findings are new"
C25_NoHistoryAllNew ==
    (ret.op = "compute_diff" /\ history.runs = <<>>) =>
        /\ ret.val.new_findings = ret.arg.current_findings
        /\ ret.val.fixed_findings = <<>>
        /\ ret.val.persistent_findings = <<>>

\* C25 witness: no run is recorded and compute_diff was called with several
\* findings and the id of a run to compare to
C25_Witness ==
    /\ ret.op = "compute_diff"
    /\ history = EmptyHistory
    /\ Len(ret.arg.current_findings) >= 2
    /\ ret.arg.compare_to_run_id # None
    /\ ret.val.new_findings = ret.arg.current_findings

(***************************************************************************)
(* C26: finalize_run writes into the record of the resolved run the counts *)
(* and token total of the run's statistics and the models of the run's     *)
(* tasks.  A second call that follows the first directly leaves counters,  *)
(* token total and model list as the first call wrote them.  The call      *)
(* changes no task, no finding and no record of another run, and changes   *)
(* nothing at all when no run id is resolved.                              *)
(***************************************************************************)
FinalizeStep == ret'.op = "finalize_run" /\ calls' = calls + 1

\* the run a finalize_run call with argument rid is about
FinalizedRunOf(rid) == IF rid # None THEN rid ELSE current_run_id

\* what idempotence is claimed for: everything of the record but its times
RunTotals(row) ==
    <<row.total_tasks, row.completed_tasks, row.failed_tasks, row.total_tokens,
      row.models_used_json>>

C26_FinalizeStep ==
    FinalizeStep =>
        LET r == FinalizedRunOf(ret'.arg)
        IN  /\ tasks' = tasks
            /\ findings' = findings
            /\ DOMAIN runs' = DOMAIN runs
            /\ \A q \in RunIds \ {r} : runs'[q] = runs[q]
            /\ r # None =>
                 /\ runs'[r].completed_at # None
                 /\ runs'[r].total_tasks = Cardinality({t \in TaskIds : tasks[t].run_id = r})
                 /\ runs'[r].completed_tasks = CountsOfRun(r)[COMPLETED]
                 /\ runs'[r].failed_tasks = CountsOfRun(r)[FAILED]
                 /\ SeqRange(runs'[r].models_used_json)
                       = {tasks[t].model_used : t \in {u \in TaskIds : tasks[u].run_id = r}}
                            \ {NoneStr}
            /\ (r # None /\ ret.op = "finalize_run" /\ FinalizedRunOf(ret.arg) = r) =>
                 RunTotals(runs'[r]) = RunTotals(runs[r])

\* C26: finalize_run is idempotent and touches the record of its run only
C26_FinalizeIsIdempotent == [][C26_FinalizeStep]_vars

\* C26 witness: finalize_run has returned for the second time on a store
\* with a single run, whose record holds 3 tasks, 1 completed, 1 failed,
\* 1000 tokens and the two models used
C26_Witness ==
    /\ ret.op = "finalize_run"
    /\ Len(runs) = 1
    /\ runs[1].completed_at = ClockStart + 2 * TickStep
    /\ RunTotals(runs[1]) = <<3, 1, 1, TOKENS_PER_TASK, <<"google/p1", "openai/p2">> >>

\* C26 witness of the call without a run id on an instance without a
\* current run: nothing was written
C26_WitnessNoRun ==
    /\ ret.op = "finalize_run" /\ ret.arg = None
    /\ current_run_id = None
    /\ runs = <<RunRow(ClockStart)>>

(***************************************************************************)
(* C28: the status of a task changes only by mark_in_progress,             *)
(* mark_completed or mark_failed called with the id of that task; every    *)
(* other operation of the queue, reads included, leaves the status of all  *)
(* existing tasks as it is, and no operation removes a task.  So a new     *)
(* instance opened after a crash finds the pending tasks of a run pending  *)
(* and get_next_pending_task(run_id) returns one of them.                  *)
(***************************************************************************)
\* the step is a mark_* call for task t
MarkStepOn(t) ==
    /\ calls' = calls + 1
    /\ \/ \E m \in ClientModelKeys : tasks' = MarkInProgressRow(tasks, t, m)
       \/ tasks' = MarkCompletedRow(tasks, t, 10, "[]")
       \/ \E e \in ClientErrorTexts : tasks' = MarkFailedRow(tasks, t, e)
    /\ UNCHANGED <<runs, findings, current_run_id>>

StatusesKept == \A t \in TaskIds : tasks'[t].status = tasks[t].status

C28_StatusFrame ==
    /\ TaskIds \subseteq DOMAIN tasks'
    /\ \A t \in TaskIds :
          tasks'[t].status # tasks[t].status =>
              /\ MarkStepOn(t)
              /\ \A u \in TaskIds \ {t} : tasks'[u] = tasks[u]
    /\ ( \/ runs' # runs
         \/ findings' # findings
         \/ current_run_id' # current_run_id
         \/ Len(tasks') # Len(tasks)
         \/ ret' # NoRet
         \/ \E t \in TaskIds : tasks'[t].priority # tasks[t].priority ) => StatusesKept

C28_Recovery ==
    (ret.op = "get_next_pending_task" /\ ret.arg # None /\ current_run_id = None) =>
        LET pend == {t \in TaskIds : tasks[t].run_id = ret.arg /\ tasks[t].status = PENDING}
        IN  IF pend = {} THEN ret.val = None ELSE ret.val \in pend

\* C28: only the mark_* operations change a status, nothing deletes a task,
\* and the pending tasks of a run are found again after a restart
C28_OnlyMarksChangeStatus == [][C28_StatusFrame]_vars /\ []C28_Recovery

\* C28 witness: a second run was created and its tasks generated, the store
\* was reopened, a finding was saved, and get_next_pending_task(1) on the
\* new instance returned the task of run 1 that was pending all along
C28_Witness ==
    /\ Len(runs) = 2
    /\ \E t \in TaskIds : tasks[t].run_id = 2
    /\ current_run_id = None
    /\ findings # <<>>
    /\ ret.op = "get_next_pending_task" /\ ret.arg = 1
    /\ ret.val = 3
    /\ tasks[3].status = PENDING

(***************************************************************************)
(* C27: an iteration that dequeued a task while no model is available      *)
(* changes no task (the task stays pending), sleeps for the quota-check    *)
(* interval and returns to the head of the loop, where the duration and    *)
(* the queue are tested again; a task is marked in progress only from the  *)
(* head of the loop, within the budget, while it is pending, and for a     *)
(* model that is not on cooldown.                                          *)
(***************************************************************************)
\* model m is on cooldown at the time the loop asks for a model
OnCooldown(m) == ~(now > DictGet(rate_limit_until, get_model_key(models, m)))
AllOnCooldown == \A m \in ModelIds : OnCooldown(m)

\* the runner takes a step from the head of the loop
LoopStep == pc = "loop" /\ (pc' # pc \/ now' # now)
\* the iteration that waits for quota
QuotaWaitStep == pc = "loop" /\ pc' = "loop" /\ now' # now
\* the iteration that marks a task in progress
DispatchStep == pc = "loop" /\ pc' = "calling"

PendingOfRun == {t \in TaskIds : tasks[t].run_id = run_id /\ tasks[t].status = PENDING}

C27_QuotaWait ==
    /\ (LoopStep /\ AllOnCooldown) =>
          /\ tasks' = tasks /\ findings' = findings /\ dispatched' = dispatched
          /\ pc' \in {"loop", "report"}
    /\ QuotaWaitStep =>
          /\ AllOnCooldown
          /\ PendingOfRun # {}
          /\ tasks' = tasks /\ cur' = cur /\ dispatched' = dispatched
          /\ now' = now + quota_check_interval_minutes * 60
    /\ DispatchStep =>
          /\ ~OnCooldown(cur'.model)
          /\ now - start_time < MaxDurationHours * 3600
          /\ cur'.task \in PendingOfRun

\* C27: without an available model the runner waits and dispatches nothing
C27_NoModelNoDispatch == [][C27_QuotaWait]_vars

\* C27 witness: the first task of the run is in flight and was marked in
\* progress one quota-check interval after the start of the run: the
\* iteration before it found every model on cooldown and waited
C27_Witness ==
    /\ pc = "calling"
    /\ now = start_time + quota_check_interval_minutes * 60
    /\ tasks[cur.task].status = IN_PROGRESS
    /\ \A t \in TaskIds \ {cur.task} : tasks[t].status = PENDING

(***************************************************************************)
(* C29: run() comes to its end when the agent calls return.  An iteration  *)
(* with an available model takes one pending task of the run, which is     *)
(* completed or failed when the iteration ends, so the pending count of    *)
(* the run goes down by one per such iteration; an iteration that waits    *)
(* for quota uses up the duration budget; with the budget used up the next *)
(* test leaves the loop.  Every step of the runner lowers a measure that   *)
(* cannot go below zero.                                                   *)
(***************************************************************************)
TimeLeft ==
    IF start_time + MaxDurationHours * 3600 > now
    THEN start_time + MaxDurationHours * 3600 - now ELSE 0

\* three steps per pending task, the steps from the runner's position to the
\* return of run(), and the seconds left of the budget
QuotaRunMeasure == 3 * Cardinality(PendingOfRun) + PcRank + TimeLeft

C29_Progress ==
    /\ (pc # "idle" /\ (pc' # pc \/ QuotaWaitStep)) =>
          /\ QuotaRunMeasure' < QuotaRunMeasure
          /\ QuotaRunMeasure' >= 0
    /\ DispatchStep =>
          /\ PendingOfRun' = PendingOfRun \ {cur'.task}
          /\ cur'.task \in PendingOfRun
          /\ \A t \in TaskIds \ {cur'.task} : tasks'[t] = tasks[t]
    /\ (pc = "calling" /\ pc' = "loop") =>
          /\ tasks'[cur.task].status \in {COMPLETED, FAILED}
          /\ PendingOfRun' = PendingOfRun
          /\ \A t \in TaskIds \ {cur.task} : tasks'[t] = tasks[t]
    /\ (LoopStep /\ BudgetReached) => pc' = "report"
    /\ (LoopStep /\ PendingOfRun = {}) => pc' = "report"
    /\ pc = "report" => pc' \in {"report", "done"}
    /\ pc = "done" => UNCHANGED <<pc, tasks, now>>

\* C29: run() terminates
C29_RunTerminates == [][C29_Progress]_vars

\* C29 witness: run() has returned with the queue empty after an odd number
\* of quota waits (the agent calls take whole hours here) and iterations
\* that completed and failed tasks of the run
C29_Witness ==
    /\ pc = "done" /\ ret.op = "run" /\ end_reason = "queue_empty"
    /\ (now - start_time) % 3600 = quota_check_interval_minutes * 60
    /\ \E t \in TaskIds : tasks[t].status = COMPLETED
    /\ \E t \in TaskIds : tasks[t].status = FAILED
    /\ \E t \in TaskIds : tasks[t].status # PENDING /\ dispatched[t] = 1

(***************************************************************************)
(* C30: through /start and /stop at most one runner thread is alive at any *)
(* time: a /start that arrives before the run started earlier has ended,   *)
(* whatever the status shows, starts no second thread.                     *)
(***************************************************************************)
\* C30: at most one thread started by /start has not returned
C30_AtMostOneRunnerThread == Cardinality(LiveThreads) <= 1

(***************************************************************************)
(* C31: one accepted /start creates one run record and one task set per    *)
(* project; every task generated for the request carries the run id of     *)
(* the runner, and after a run that ended with the queue empty none of     *)
(* them is pending.                                                        *)
(***************************************************************************)
\* the single /start of the session has been served to its end, without stop
OneRequestServed ==
    /\ Len(pc) = 1
    /\ pc[1] = "finished"
    /\ run_status = "completed"
    /\ ~stop_requested[1]

\* C31: after one /start served to the end of its run with the queue empty,
\* the store holds one run, the tasks of one setup, all of the runner's run
\* id, and none pending
C31_OneRunPerStart ==
    OneRequestServed =>
        /\ Len(runs) = 1
        /\ Len(tasks) = Len(SetupTasks(config.flags, config.projects, 1))
        /\ \A t \in DOMAIN tasks :
            /\ tasks[t].run_id = run_id[1]
            /\ tasks[t].status # PENDING

(***************************************************************************)
(* C32: the model key stored in a dispatched task's model_used is the      *)
(* model the agent call was made with.                                     *)
(***************************************************************************)
\* C32: while the agent call of a task is in flight, the model argument it
\* was made with equals the model_used stored by mark_in_progress
C32_AgentCallUsesRecordedModel ==
    pc = "calling" =>
        CallAgentArguments(tasks[cur.task]).model = tasks[cur.task].model_used

(***************************************************************************)
(* C33: the run lifecycle is idle -> setup -> running -> completed |       *)
(* stopped | failed: a run ended by a stop request ends stopped, a run     *)
(* ended with its queue empty ends completed, a run that raised ends       *)
(* failed.                                                                 *)
(***************************************************************************)
\* runner.run() of thread i returns or raises in this step
RunEnds(i) == i \in DOMAIN pc /\ pc[i] = "in_run" /\ pc'[i] = "finished"

\* C33: when runner.run() of a thread ends, the status becomes failed if it
\* raised, stopped if it returned after a stop request with tasks of the run
\* left pending, and completed if it returned with the queue empty
C33_Lifecycle ==
    [][\A i \in DOMAIN pc :
          RunEnds(i) =>
              \/ run_status' = "failed"
              \/ /\ stop_requested[i]
                 /\ \E t \in DOMAIN tasks' : tasks'[t].run_id = run_id[i] /\ tasks'[t].status = PENDING
                 /\ run_status' = "stopped"
              \/ /\ \A t \in DOMAIN tasks' : tasks'[t].run_id = run_id[i] => tasks'[t].status # PENDING
                 /\ run_status' = "completed"]_vars

(***************************************************************************)
(* C34: update_task_priorities(ordered_tasks) gives the i-th task of the   *)
(* list priority i, in the store and in the object, and changes nothing    *)
(* else; when the list holds all pending tasks of the run, dequeuing until *)
(* the run is drained returns them in the order of the list.               *)
(***************************************************************************)
UpdatePrioritiesStep == calls' = calls + 1 /\ ret'.op = "update_task_priorities"

\* the task brought to a terminal status through mark_in_progress and
\* mark_completed or mark_failed
Terminated(tbl, t) ==
    LET started == MarkInProgressRow(tbl, t, "google/p1")
    IN  {MarkCompletedRow(started, t, TOKENS_PER_TASK, "[]"),
         MarkFailedRow(started, t, "Agent call failed")}

\* the sequences of tasks that successive get_next_pending_task(r) calls can
\* return when each returned task is terminated before the next call
RECURSIVE DrainOrders(_, _)
DrainOrders(tbl, r) ==
    IF NextPendingIn(tbl, r) = {None} THEN {<<>>}
    ELSE UNION {UNION {{<<t>> \o rest : rest \in DrainOrders(done, r)} : done \in Terminated(tbl, t)}
                  : t \in NextPendingIn(tbl, r)}

\* the run whose tasks the list orders, and whether every pending task of
\* that run is in the list
RunOfList(ordered_tasks) == tasks[ordered_tasks[1]].run_id
ListsAllPending(ordered_tasks) ==
    \A u \in RowsWhere(tasks, PENDING, RunOfList(ordered_tasks)) :
        \E i \in DOMAIN ordered_tasks : ordered_tasks[i] = u

\* C34 (effect): the step writes position i as the priority of the i-th
\* task, in the row and in the object, and leaves every other column and
\* every other row as it was
C34_UpdateStep ==
    [][UpdatePrioritiesStep =>
          LET ordered_tasks == ret'.arg
          IN  /\ DOMAIN tasks' = DOMAIN tasks
              /\ \A i \in DOMAIN ordered_tasks :
                    /\ tasks'[ordered_tasks[i]].priority = i
                    /\ ret'.val[i] = i
              /\ \A u \in DOMAIN tasks :
                    /\ tasks'[u].status = tasks[u].status
                    /\ [tasks'[u] EXCEPT !.priority = 0] = [tasks[u] EXCEPT !.priority = 0]
                    /\ (\A i \in DOMAIN ordered_tasks : ordered_tasks[i] # u) => tasks'[u] = tasks[u]
              /\ UNCHANGED <<runs, findings, current_run_id>>]_vars

\* C34 (order): right after an update whose list holds all pending tasks of
\* the run, the only order in which the run can be drained is the list's
C34_DequeueOrder ==
    (ret.op = "update_task_priorities" /\ ListsAllPending(ret.arg)) =>
        DrainOrders(tasks, RunOfList(ret.arg)) =
            {SelectSeq(ret.arg, LAMBDA u : tasks[u].status = PENDING)}

\* C34: both parts
C34_UpdateTaskPriorities == C34_UpdateStep /\ [](C34_DequeueOrder)

\* C34 witness: an update has reversed three pending tasks of a run, which
\* now drain from the last generated to the first; a task of another run
\* kept its priority
C34_Witness ==
    /\ ret.op = "update_task_priorities"
    /\ ListsAllPending(ret.arg)
    /\ Len(ret.arg) = 3
    /\ ret.arg[1] > ret.arg[2] /\ ret.arg[2] > ret.arg[3]
    /\ \A i \in 1..3 : tasks[ret.arg[i]].status = PENDING /\ tasks[ret.arg[i]].priority = i
    /\ DrainOrders(tasks, RunOfList(ret.arg)) = {ret.arg}
    /\ \E u \in DOMAIN tasks : tasks[u].run_id # RunOfList(ret.arg) /\ tasks[u].priority = 11

\* C34 witness: a list of one task alone gave it priority 1 while another
\* pending task of the run keeps its own
C34_WitnessPartial ==
    /\ ret.op = "update_task_priorities"
    /\ Len(ret.arg) = 1
    /\ ~ListsAllPending(ret.arg)
    /\ tasks[ret.arg[1]].priority = 1

(***************************************************************************)
(* Properties of the SmartPrioritizer (specification PrioSpec)             *)
(***************************************************************************)

(***************************************************************************)
(* C35: without a token budget prioritize_tasks returns a permutation of   *)
(* its input in non-increasing score order, the score being the impact     *)
(* score of the kind times the mode's multiplier for the kind's category,  *)
(* tasks of equal score in input order; an unknown mode counts as          *)
(* balanced.                                                               *)
(***************************************************************************)
\* the mode whose multipliers apply, and the score of the task at position i
\* of the input
EffectiveMode == IF config.mode \in {"security_first", "balanced", "research_heavy", "quick_scan"}
                 THEN config.mode ELSE "balanced"
ScoreAt(i) ==
    TASK_IMPACT_SCORES[tasks[i].task_type]
        * PRIORITY_MODES[EffectiveMode][get_task_category(tasks[i].task_type)]

\* the returned positions are in score order, equal scores in input order
InScoreOrder(val) ==
    \A i, j \in DOMAIN val :
        i < j => \/ ScoreAt(val[i]) > ScoreAt(val[j])
                 \/ ScoreAt(val[i]) = ScoreAt(val[j]) /\ val[i] < val[j]

\* C35: the list returned without a budget holds every input task once and
\* is in score order with ties in input order
C35_SortedPermutation ==
    (ret.op = "prioritize_tasks" /\ ~config.token_budget.given) =>
        /\ Len(ret.val) = Len(tasks)
        /\ {ret.val[i] : i \in DOMAIN ret.val} = DOMAIN tasks
        /\ InScoreOrder(ret.val)

\* C35 witness: research_heavy puts two tasks of score 90 (best_practices_check
\* and dependency_audit) in input order before security_review, which came
\* first in the input
C35_Witness ==
    /\ ret.op = "prioritize_tasks"
    /\ ~config.token_budget.given
    /\ config.mode = "research_heavy"
    /\ ret.val = <<2, 3, 1>>
    /\ ScoreAt(2) = ScoreAt(3)
    /\ tasks[2].task_type # tasks[3].task_type

\* C35 witness: a mode name outside the four orders dependency_updates (55
\* times 1.1) before best_practices_check (60 times 1.0), as balanced does
C35_WitnessUnknownMode ==
    /\ ret.op = "prioritize_tasks"
    /\ ~config.token_budget.given
    /\ config.mode = "thorough"
    /\ Len(tasks) = 2
    /\ tasks[1].task_type = "best_practices_check"
    /\ tasks[2].task_type = "dependency_updates"
    /\ ret.val = <<2, 1>>

(***************************************************************************)
(* C36: with a token budget B >= 0 prioritize_tasks returns the tasks      *)
(* selected greedily in score order: a task is selected iff its cost       *)
(* estimate fits the budget left by the tasks selected before it; the      *)
(* selected tasks cost at most B in total and stay in score order, and     *)
(* B = 0 selects none.                                                     *)
(***************************************************************************)
\* the positions of the score order before its k-th that were returned
SelectedBefore(order, k, val) ==
    SelectSeq(SubSeq(order, 1, k - 1), LAMBDA t : \E i \in DOMAIN val : val[i] = t)

\* C36: for a given budget B the returned list is the greedy selection along
\* the score order and its estimated cost is at most B
C36_GreedyWithinBudget ==
    (ret.op = "prioritize_tasks" /\ config.token_budget.given) =>
        LET B == config.token_budget.value
            order == scored_tasks(config.mode, tasks)
        IN  /\ InScoreOrder(ret.val)
            /\ estimate_total_tokens(tasks, ret.val) <= B
            /\ \A k \in DOMAIN order :
                  (\E i \in DOMAIN ret.val : ret.val[i] = order[k])
                      <=> TOKEN_COST_ESTIMATES[tasks[order[k]].task_type]
                              <= B - estimate_total_tokens(tasks, SelectedBefore(order, k, ret.val))

(***************************************************************************)
(* Properties of the run totals (specification TallySpec)                  *)
(***************************************************************************)

(***************************************************************************)
(* C37: for every run the per-status counts of get_statistics sum to the   *)
(* number of tasks generated for the run; finalize_run writes that number  *)
(* as total_tasks, with completed_tasks + failed_tasks <= total_tasks, and *)
(* the report returned by run() has it as total_tasks too.                 *)
(***************************************************************************)
\* the tasks generated for run r (no row is ever deleted or moved)
TasksOfRun(r) == {t \in DOMAIN tasks : tasks[t].run_id = r}

StatusCountSum(stats) ==
    stats.pending + stats.in_progress + stats.completed + stats.failed + stats.skipped

\* C37 (statistics): the five counts of get_statistics(r) sum to the number
\* of tasks of run r
C37_CountsSumToGenerated ==
    \A r \in DOMAIN runs : StatusCountSum(get_statistics(r)) = Cardinality(TasksOfRun(r))

\* C37 (finalize_run): the record written has the number of tasks of the run
\* as total_tasks and no more completed and failed tasks than that
C37_FinalizeWritesTotal ==
    [][(FinalizeStep /\ FinalizedRunOf(ret'.arg) \in DOMAIN runs) =>
          LET row == runs'[FinalizedRunOf(ret'.arg)]
          IN  /\ row.total_tasks = Cardinality(TasksOfRun(FinalizedRunOf(ret'.arg)))
              /\ row.completed_tasks + row.failed_tasks <= row.total_tasks]_vars

\* C37 (report): the report run() returns counts the tasks setup_tasks
\* generated for the run
C37_ReportTotal ==
    (pc = "done" /\ ret.op = "run") =>
        /\ ret.report.run_id = run_id
        /\ ret.report.total_tasks = Cardinality(TasksOfRun(run_id))
        /\ ret.report.total_tasks = Len(SetupTasks(config.flags, config.projects, run_id))

\* C37: the three parts
C37_TotalsAgree == [](C37_CountsSumToGenerated) /\ C37_FinalizeWritesTotal /\ [](C37_ReportTotal)

\* C37 witness: run() returned a report over three tasks, one of them
\* failed, of a run the client finalized with the same total
C37_Witness ==
    /\ pc = "done"
    /\ ret.op = "run"
    /\ ret.report.total_tasks = 3
    /\ ret.report.failed_tasks = 1
    /\ ret.report.completed_tasks = 2
    /\ runs[run_id].completed_at # None
    /\ runs[run_id].total_tasks = 3

\* C37 witness: finalize_run was called while a task of the run is in
\* progress and another is still pending
C37_WitnessMidRun ==
    /\ ret.op = "finalize_run"
    /\ pc = "calling"
    /\ FinalizedRunOf(ret.arg) = run_id
    /\ runs[run_id].total_tasks = 3
    /\ get_statistics(run_id).in_progress = 1
    /\ get_statistics(run_id).pending >= 1

(***************************************************************************)
(* Properties of the ModelFailoverManager (specification MgrSpec),         *)
(* continued                                                               *)
(***************************************************************************)

(***************************************************************************)
(* C38: the pruning pass at the head of get_available_model removes only   *)
(* cooldown entries whose until-time has passed, runs only when more than  *)
(* quota_check_interval seconds have passed since the previous pass, and   *)
(* changes no answer of get_available_model or get_status.                 *)
(***************************************************************************)
\* a step of get_available_model (all_exhausted calls it)
AvailabilityStep == ret'.op \in {"get_available_model", "all_exhausted"}

\* C38 (what is removed): every entry the step removed had expired, every
\* other entry is kept with its value, and no entry appears
C38_RemovesOnlyExpired ==
    AvailabilityStep =>
        /\ DOMAIN rate_limit_until' \subseteq DOMAIN rate_limit_until
        /\ \A k \in DOMAIN rate_limit_until :
              IF k \in DOMAIN rate_limit_until'
              THEN rate_limit_until'[k] = rate_limit_until[k]
              ELSE now > rate_limit_until[k]
        /\ \A k \in DOMAIN rate_limit_until :
              ~(now > rate_limit_until[k]) => k \in DOMAIN rate_limit_until'

\* C38 (when it runs): the dict and the time of the last pass change only
\* when more than quota_check_interval seconds have passed since that time
C38_RunsOnlyWhenDue ==
    (/\ AvailabilityStep
     /\ (rate_limit_until' # rate_limit_until \/ last_quota_check' # last_quota_check))
        => /\ now - last_quota_check > quota_check_interval
           /\ last_quota_check' = now

\* C38 (invisible): the model returned is the one the dict before the pass
\* gives, and get_status reads the same from the dict before and after
C38_SameAnswers ==
    AvailabilityStep =>
        /\ (ret'.op = "get_available_model"
              => ret'.val = AvailableModel(models, rate_limit_until, now))
        /\ (ret'.op = "all_exhausted"
              => (ret'.val = 1 <=> AvailableModel(models, rate_limit_until, now) = None))
        /\ StatusOf(models, rate_limit_until', now) = StatusOf(models, rate_limit_until, now)

\* C38: the three parts, for every step of get_available_model
C38_LazyPruning ==
    [][C38_RemovesOnlyExpired /\ C38_RunsOnlyWhenDue /\ C38_SameAnswers]_vars

\* C38 witness: a pass has just run and kept an entry that expires right
\* now, so the model of that entry is not the one returned, while a model
\* without an entry is
C38_Witness ==
    /\ ret.op = "get_available_model"
    /\ last_quota_check = now
    /\ \E m \in ModelIds :
          /\ get_model_key(models, m) \in DOMAIN rate_limit_until
          /\ rate_limit_until[get_model_key(models, m)] = now
          /\ ret.val # m
    /\ ret.val # None
    /\ get_model_key(models, ret.val) \notin DOMAIN rate_limit_until

\* C38 witness: get_status reports a model as unavailable with the seconds
\* left on its cooldown
C38_WitnessStatus ==
    /\ ret.op = "get_status"
    /\ \E k \in DOMAIN ret.val : ~ret.val[k].available /\ ret.val[k].retry_after_seconds = TickStep
    /\ \E k \in DOMAIN ret.val : ret.val[k].available

(***************************************************************************)
(* Properties of the finding history (specification HistSpec)              *)
(***************************************************************************)

(***************************************************************************)
(* C39: after any sequence of record_run calls the history holds at most   *)
(* 30 run records, the most recently recorded ones in recording order;     *)
(* every signature listed in a kept record still has its finding metadata, *)
(* so compute_diff can rebuild every fixed finding.                        *)
(***************************************************************************)
RecordStep == calls' = calls + 1 /\ ret'.op = "record_run"

\* C39 (limit and order): the kept records are those of the last calls, at
\* most 30, oldest first
C39_KeepsMostRecent ==
    /\ Len(history.runs) = (IF calls > 30 THEN 30 ELSE calls)
    /\ \A i \in DOMAIN history.runs :
          history.runs[i].run_id = calls - Len(history.runs) + i

\* C39 (recording): a call appends the record of its run behind the records
\* kept, of which only the oldest may go
C39_RecordAppends ==
    [][RecordStep =>
          /\ history'.runs[Len(history'.runs)] =
                [run_id |-> calls', finding_signatures |-> Signatures(ret'.arg)]
          /\ SubSeq(history'.runs, 1, Len(history'.runs) - 1) =
                (IF Len(history.runs) = 30 THEN Tail(history.runs) ELSE history.runs)]_vars

\* C39 (metadata): every signature of a kept record has finding data, and
\* the data is a finding of that signature
C39_MetadataKept ==
    \A i \in DOMAIN history.runs :
        \A sig \in SeqRange(history.runs[i].finding_signatures) :
            /\ sig \in DOMAIN history.findings
            /\ _finding_signature(history.findings[sig]) = sig

\* C39 (fixed findings): compute_diff against a kept record returns one
\* fixed finding for every signature of that record that is not among the
\* current ones
C39_FixedRebuilt ==
    (ret.op = "compute_diff" /\ PreviousRun(history, ret.arg.compare_to_run_id) # None) =>
        LET p == PreviousRun(history, ret.arg.compare_to_run_id)
            fixed == ret.val.fixed_findings
        IN  /\ {_finding_signature(fixed[i]) : i \in DOMAIN fixed}
                  = SeqRange(history.runs[p].finding_signatures)
                        \ SeqRange(Signatures(ret.arg.current_findings))
            /\ Len(fixed) = Cardinality({_finding_signature(fixed[i]) : i \in DOMAIN fixed})

\* C39: the four parts
C39_HistoryCap ==
    /\ [](C39_KeepsMostRecent /\ C39_MetadataKept /\ C39_FixedRebuilt)
    /\ C39_RecordAppends

\* C39 witness: 32 runs were recorded, the history holds runs 3 to 32, and
\* compute_diff against the last of them rebuilt two fixed findings, whose
\* metadata was stored when a run no longer in the history was recorded
C39_Witness ==
    /\ calls = 32
    /\ Len(history.runs) = 30
    /\ history.runs[1].run_id = 3
    /\ history.runs[30].run_id = 32
    /\ ret.op = "compute_diff"
    /\ ret.arg.compare_to_run_id = None
    /\ Len(ret.val.fixed_findings) = 2
    /\ history.runs[29].finding_signatures # history.runs[30].finding_signatures

\* C39 witness: asked to compare to run 1, which the history dropped,
\* compute_diff finds no record and reports the current findings as new
C39_WitnessDropped ==
    /\ calls > 30
    /\ ret.op = "compute_diff"
    /\ ret.arg.compare_to_run_id = 1
    /\ PreviousRun(history, 1) = None
    /\ ret.val.new_findings = ret.arg.current_findings
    /\ ret.val.new_findings # <<>>

(***************************************************************************)
(* C40: in the report returned by run(), each project's tasks_completed is *)
(* the number of completed tasks of that project in the run, so the values *)
(* sum to the report's completed_tasks, and each project's findings are    *)
(* the findings of that project's tasks in the run.                        *)
(***************************************************************************)
\* the completed tasks of a project in the runner's run
CompletedOfProject(name) ==
    {t \in TasksOfRun(run_id) : tasks[t].project_name = name /\ tasks[t].status = COMPLETED}

RECURSIVE SumTasksCompleted(_)
SumTasksCompleted(project_reports) ==
    IF project_reports = <<>> THEN 0
    ELSE Head(project_reports).tasks_completed + SumTasksCompleted(Tail(project_reports))

\* C40: the project reports of the returned report count and list what
\* belongs to their project
C40_PerProjectReport ==
    (pc = "done" /\ ret.op = "run") =>
        /\ \A i \in DOMAIN ret.report.projects :
              LET pr == ret.report.projects[i]
              IN  /\ pr.name = config.projects[i]
                  /\ pr.tasks_completed = Cardinality(CompletedOfProject(pr.name))
                  /\ pr.findings =
                        SelectSeq(findings, LAMBDA f :
                            /\ f.task_id \in TasksOfRun(run_id)
                            /\ tasks[f.task_id].project_name = pr.name)
        /\ SumTasksCompleted(ret.report.projects) = ret.report.completed_tasks

====
